---- MODULE Spec2Model ----
(***************************************************************************)
(* Model of the JSON-file repository layer of ThesisHub (core/repo.py):    *)
(* the sidecar lock (_acquire_lock/_release_lock), the backup rotation     *)
(* (_rotate_backup), the atomic writer (_atomic_write_text), the resilient *)
(* reader (read_json) and the transactional primitives (write_json,        *)
(* update_atomic, append_json), run by concurrent processes on one         *)
(* resource. Later sections model the calls built on it: the thesis and    *)
(* archive records, the notification window, several resources sharing    *)
(* the backup directory, the bootstrap, register_student and the thesis    *)
(* request handlers of the command line and the API.                       *)
(***************************************************************************)
EXTENDS Integers, Sequences, FiniteSets, TLC

\* ---------------------------------------------------------------- bounds
MaxCalls == 2        \* calls the processes make in all
MaxNow   == 70       \* the wall clock stops advancing here (seconds)
MaxRetain == 2       \* snapshots retained per resource
MaxWindow == 2       \* notifications kept in notifications.json
MaxCapacity == 1     \* places the requested course starts with

\* ------------------------------------------------------ program constants
LOCK_TIMEOUT_SEC == 10
STALE_LOCK_SEC   == 60
\* The source retains 10 snapshots; the model retains MaxRetain so that
\* pruning happens within the bounded number of writes.
BACKUP_RETAIN_PER_FILE == MaxRetain
\* The source keeps 2000 notifications; the model keeps MaxWindow.
NOTIF_MEMORY_MAX == MaxWindow

\* The processes sharing the data directory (a server and a CLI run).
Procs == {1, 2}

\* The clock advances in coarse steps: one step takes a waiting acquirer
\* past the timeout and leaves a marker fresh, two take a marker past the
\* staleness threshold.
TickSteps == {35}

\* ------------------------------------------------------------ file bodies
\* A file body is a record: kind "json" (the text json.dumps produced for
\* val), "garbage" (bytes json.loads rejects), "partial" (a prefix of a text
\* still being written) or "absent" (no such file).
Dumps(v)  == [kind |-> "json", val |-> v]
Garbage   == [kind |-> "garbage", val |-> <<>>]
Partial   == [kind |-> "partial", val |-> <<>>]
Absent    == [kind |-> "absent", val |-> <<>>]
Parses(b) == b.kind = "json"
Loads(b)  == b.val

\* Python values. A list of tags is the sequence itself; None and a JSON
\* object (a dict) are written as the one-element sequences below, which no
\* list of tags equals (tags are natural numbers).
None      == <<-1>>
Obj       == <<-2>>
IsList(v) == v # None /\ v # Obj

\* The lock marker <name>.lock: the call that created it and its mtime.
NoMarker     == [exists |-> FALSE, owner |-> 0, mtime |-> 0]
Marker(p, t) == [exists |-> TRUE, owner |-> p, mtime |-> t]

VARIABLES
  now,        \* time.time(), in seconds
  marker,     \* the resource's lock marker file
  file,       \* the body of the file under the resource's real name
  backups,    \* _bak/<stem>_<ts>.json: timestamp -> body
  tmp,        \* tmp[p]: the temp file of p's current _atomic_write_text
  defaults,   \* defaults[p]: the list object _DEFAULTS[path] of process p
  pc,         \* pc[p]: where p is in its current call
  op,         \* op[p]: the call p is making
  ncalls,     \* calls started so far, by all processes
  cid,        \* cid[p]: the number of p's latest call (0: none yet)
  start,      \* start[p]: _acquire_lock's start time
  data,       \* data[p]: update_atomic's / write_json's data
  err,        \* err[p]: the exception in flight through the finally block
  outcome,    \* outcome[p]: how p's latest call ended: the call's name when
              \* it returned, else the exception raised, or "crashed"
  result,     \* result[p]: what p's latest call returned
  ret,        \* ret[p]: update_atomic's ret, what the transform returned
  staleSeen   \* staleSeen[p]: the marker p's stat found stale in this call

vars == <<now, marker, file, backups, tmp, defaults, pc, op, ncalls, cid, start,
          data, err, outcome, result, ret, staleSeen>>

\* The calls a process makes on the resource.
LockedOps == {"append", "raise", "write"}

\* p is between a successful _acquire_lock and its _release_lock.
HoldPcs == {"read", "rotate", "write_tmp", "replace", "release"}
Holds(p) == pc[p] \in HoldPcs

\* ------------------------------------------------------------------ Init
\* The states a data directory can be in when the processes start: the
\* resource as bootstrap left it, or damaged from outside, without or with
\* the snapshots of earlier runs.
NoBackups == [t \in {} |-> Garbage]
InitDisks ==
  { <<Dumps(<<>>), NoBackups>>,
    <<Garbage, NoBackups>>,
    <<Garbage, [t \in {-20, -10} |-> IF t = -20 THEN Dumps(<<>>) ELSE Dumps(<<0>>)]>> }

\* The lock marker is absent, or was left by a holder that died in an
\* earlier run (call 0) long enough ago to be stale.
InitMarkers == {NoMarker, Marker(0, -70)}

\* No process is in a call.
InitLocals ==
  /\ tmp = [p \in Procs |-> Absent]
  /\ defaults = [p \in Procs |-> <<>>]
  /\ pc = [p \in Procs |-> "idle"]
  /\ op = [p \in Procs |-> "none"]
  /\ ncalls = 0
  /\ cid = [p \in Procs |-> 0]
  /\ start = [p \in Procs |-> 0]
  /\ data = [p \in Procs |-> <<>>]
  /\ err = [p \in Procs |-> "none"]
  /\ outcome = [p \in Procs |-> "none"]
  /\ result = [p \in Procs |-> <<>>]
  /\ ret = [p \in Procs |-> None]
  /\ staleSeen = [p \in Procs |-> NoMarker]

Init ==
  /\ now = 0
  /\ marker \in InitMarkers
  /\ \E d \in InitDisks : file = d[1] /\ backups = d[2]
  /\ InitLocals

\* ------------------------------------------------------------- the clock
Tick ==
  /\ \E d \in TickSteps : now + d <= MaxNow /\ now' = now + d
  /\ UNCHANGED <<marker, file, backups, tmp, defaults, pc, op, ncalls, cid, start,
                 data, err, outcome, result, ret, staleSeen>>

\* The tag a call appends: its own number, distinct for distinct calls.
Tag(c) == c

\* ------------------------------------------------------- _acquire_lock
\* A locking call starts: write_json or update_atomic enters _acquire_lock,
\* which notes its start time. _acquire_lock takes the path only, so the
\* wait is the same for every caller; which caller it is (op, data) is
\* recorded at the step that takes the lock.
StartLocked(p) ==
  /\ pc[p] = "idle"
  /\ ncalls < MaxCalls
  /\ ncalls' = ncalls + 1
  /\ cid' = [cid EXCEPT ![p] = ncalls + 1]
  /\ start' = [start EXCEPT ![p] = now]
  /\ err' = [err EXCEPT ![p] = "none"]
  /\ outcome' = [outcome EXCEPT ![p] = "none"]
  /\ result' = [result EXCEPT ![p] = <<>>]
  /\ ret' = [ret EXCEPT ![p] = None]
  /\ staleSeen' = [staleSeen EXCEPT ![p] = NoMarker]
  /\ pc' = [pc EXCEPT ![p] = "create"]
  /\ UNCHANGED <<now, marker, file, backups, tmp, defaults, op, data>>

\* The calls of a single caller, chosen with their arguments when the call
\* is made: write_json with a list or with a JSON object, update_atomic
\* with each of the transforms.
SeqOps == {"write", "write_obj", "append", "mutate", "replace",
           "mutate_replace", "nofn", "raise"}

\* The payload of a write_json call.
Payload(o, c) == IF o = "write" THEN <<Tag(c)>>
                 ELSE IF o = "write_obj" THEN Obj ELSE <<>>

\* write_json(path, data) or update_atomic(path, fn) is called and enters
\* _acquire_lock.
StartCall(p) ==
  /\ pc[p] = "idle"
  /\ ncalls < MaxCalls
  /\ \E o \in SeqOps :
       /\ op' = [op EXCEPT ![p] = o]
       /\ data' = [data EXCEPT ![p] = Payload(o, ncalls + 1)]
  /\ ncalls' = ncalls + 1
  /\ cid' = [cid EXCEPT ![p] = ncalls + 1]
  /\ start' = [start EXCEPT ![p] = now]
  /\ err' = [err EXCEPT ![p] = "none"]
  /\ outcome' = [outcome EXCEPT ![p] = "none"]
  /\ result' = [result EXCEPT ![p] = <<>>]
  /\ ret' = [ret EXCEPT ![p] = None]
  /\ staleSeen' = [staleSeen EXCEPT ![p] = NoMarker]
  /\ pc' = [pc EXCEPT ![p] = "create"]
  /\ UNCHANGED <<now, marker, file, backups, tmp, defaults>>

\* Where a call goes once it holds the lock: update_atomic reads,
\* write_json rotates.
AfterAcquire(o) ==
  IF o \in {"write", "write_obj", "handler", "emit", "_emit", "purge"}
    THEN "rotate" ELSE "read"

\* os.open(lockp, O_CREAT | O_EXCL | O_WRONLY): creates the marker, or
\* raises FileExistsError. On success _acquire_lock returns to its caller:
\* the call already recorded, or else write_json (with its payload),
\* append_json, or an update_atomic whose transform will raise.
TryCreate(p) ==
  /\ pc[p] = "create"
  /\ IF marker.exists
       THEN /\ pc' = [pc EXCEPT ![p] = "stat"]
            /\ UNCHANGED <<marker, start, op, data>>
       ELSE /\ marker' = Marker(cid[p], now)
            /\ start' = [start EXCEPT ![p] = 0]
            /\ IF op[p] = "none"
                 THEN \E o \in LockedOps :
                        /\ op' = [op EXCEPT ![p] = o]
                        /\ data' = [data EXCEPT ![p] = Payload(o, cid[p])]
                        /\ pc' = [pc EXCEPT ![p] = AfterAcquire(o)]
                 ELSE /\ pc' = [pc EXCEPT ![p] = AfterAcquire(op[p])]
                      /\ UNCHANGED <<op, data>>
  /\ UNCHANGED <<now, file, backups, tmp, defaults, ncalls, cid,
                 err, outcome, result, ret, staleSeen>>

\* The stale test: age > STALE_LOCK_SEC.
IsStale(m, t) == t - m.mtime > STALE_LOCK_SEC

\* lockp.stat() and the age test; a marker that has gone makes stat raise.
StatMarker(p) ==
  /\ pc[p] = "stat"
  /\ IF ~marker.exists
       THEN /\ pc' = [pc EXCEPT ![p] = "unlink_exc"]
            /\ UNCHANGED staleSeen
       ELSE IF IsStale(marker, now)
         THEN /\ pc' = [pc EXCEPT ![p] = "unlink_stale"]
              /\ staleSeen' = [staleSeen EXCEPT ![p] = marker]
         ELSE /\ pc' = [pc EXCEPT ![p] = "timeout_check"]
              /\ UNCHANGED staleSeen
  /\ UNCHANGED <<now, marker, file, backups, tmp, defaults, op, ncalls, cid, start,
                 data, err, outcome, result, ret>>

\* Mutant of UnlinkStale: no continue, the loop goes on to the timeout
\* test and the sleep.
UnlinkStaleNoContinue(p) ==
  /\ pc[p] = "unlink_stale"
  /\ marker' = NoMarker
  /\ pc' = [pc EXCEPT ![p] = "timeout_check"]
  /\ UNCHANGED <<now, file, backups, tmp, defaults, op, ncalls, cid, start, data,
                 err, outcome, result, ret, staleSeen>>

\* lockp.unlink(missing_ok=True); continue   (the stale branch)
UnlinkStale(p) ==
  /\ pc[p] = "unlink_stale"
  /\ marker' = NoMarker
  /\ pc' = [pc EXCEPT ![p] = "create"]
  /\ UNCHANGED <<now, file, backups, tmp, defaults, op, ncalls, cid, start, data,
                 err, outcome, result, ret, staleSeen>>

\* lockp.unlink(missing_ok=True); continue   (the handler of a failed stat)
UnlinkAfterStatError(p) ==
  /\ pc[p] = "unlink_exc"
  /\ marker' = NoMarker
  /\ pc' = [pc EXCEPT ![p] = "create"]
  /\ UNCHANGED <<now, file, backups, tmp, defaults, op, ncalls, cid, start, data,
                 err, outcome, result, ret, staleSeen>>

\* Mutant of TimedOut: the wait is compared with the staleness threshold.
TimedOutStale(t0, t) == t - t0 > STALE_LOCK_SEC

\* The timeout test: elapsed > timeout.
TimedOut(t0, t) == t - t0 > LOCK_TIMEOUT_SEC

\* if time.time() - start > timeout: raise TimeoutError; else sleep, retry.
TimeoutCheck(p) ==
  /\ pc[p] = "timeout_check"
  /\ IF TimedOut(start[p], now)
       THEN /\ pc' = [pc EXCEPT ![p] = "idle"]
            /\ outcome' = [outcome EXCEPT ![p] = "TimeoutError"]
            /\ start' = [start EXCEPT ![p] = 0]
            /\ staleSeen' = [staleSeen EXCEPT ![p] = NoMarker]
            /\ op' = [op EXCEPT ![p] = "none"]
            /\ data' = [data EXCEPT ![p] = <<>>]
       ELSE /\ pc' = [pc EXCEPT ![p] = "create"]
            /\ UNCHANGED <<outcome, start, staleSeen, op, data>>
  /\ UNCHANGED <<now, marker, file, backups, tmp, defaults, ncalls, cid,
                 err, result, ret>>

\* ------------------------------------------------------------ read_json
\* Mutant of SortedDesc: reverse=True is missing, oldest first.
RECURSIVE SortedAsc(_)
SortedAsc(S) ==
  IF S = {} THEN <<>>
  ELSE LET m == CHOOSE x \in S : \A y \in S : x <= y
       IN  <<m>> \o SortedAsc(S \ {m})

\* sorted(BACKUP_DIR.glob(f"{path.stem}_*.json"), reverse=True): the
\* snapshot names, newest first.
RECURSIVE SortedDesc(_)
SortedDesc(S) ==
  IF S = {} THEN <<>>
  ELSE LET m == CHOOSE x \in S : \A y \in S : y <= x
       IN  <<m>> \o SortedDesc(S \ {m})

\* for cand in candidates: try: return json.loads(...) except: continue
RECURSIVE FirstParsing(_, _)
FirstParsing(cands, bk) ==
  IF cands = <<>> THEN [found |-> FALSE, val |-> <<>>]
  ELSE IF Parses(bk[Head(cands)])
         THEN [found |-> TRUE, val |-> Loads(bk[Head(cands)])]
         ELSE FirstParsing(Tail(cands), bk)

\* read_json(path) in a process whose _DEFAULTS[path] is the list dflt: the
\* value returned, and whether it is that very list object.
ReadJson(f, bk, dflt) ==
  IF Parses(f) THEN [val |-> Loads(f), isDefault |-> FALSE]
  ELSE LET r == FirstParsing(SortedDesc(DOMAIN bk), bk)
       IN  IF r.found THEN [val |-> r.val, isDefault |-> FALSE]
           ELSE [val |-> dflt, isDefault |-> TRUE]

\* Mutant of ReadCall: a read that recovers from a snapshot, or falls back
\* to the default, writes what it found over the corrupted primary.
ReadCallRepairs(p) ==
  /\ pc[p] = "idle"
  /\ ncalls < MaxCalls
  /\ ncalls' = ncalls + 1
  /\ cid' = [cid EXCEPT ![p] = ncalls + 1]
  /\ result' = [result EXCEPT ![p] = ReadJson(file, backups, defaults[p]).val]
  /\ outcome' = [outcome EXCEPT ![p] = "read"]
  /\ file' = Dumps(ReadJson(file, backups, defaults[p]).val)
  /\ UNCHANGED <<now, marker, backups, tmp, defaults, pc, op, start,
                 data, err, ret, staleSeen>>

\* A read_json call outside any lock.
ReadCall(p) ==
  /\ pc[p] = "idle"
  /\ ncalls < MaxCalls
  /\ ncalls' = ncalls + 1
  /\ cid' = [cid EXCEPT ![p] = ncalls + 1]
  /\ result' = [result EXCEPT ![p] = ReadJson(file, backups, defaults[p]).val]
  /\ outcome' = [outcome EXCEPT ![p] = "read"]
  /\ UNCHANGED <<now, marker, file, backups, tmp, defaults, pc, op, start,
                 data, err, ret, staleSeen>>

\* -------------------------------------------------------- update_atomic
\* out = fn(data), for the transforms callers pass, applied to the value d
\* that read_json returned, in the call tagged t. out is what fn returned,
\* arg is the object fn was given as fn left it, same tells whether out is
\* that very object, raises whether fn raised instead.
\*   "append"   append_json's _fn: appends to the list it was given and
\*              returns it; given something else it binds a new list.
\*   "mutate"   appends in place and returns nothing.
\*   "replace"  builds a new list and returns it (as archive_defense's _fn
\*              does), leaving its argument alone.
\*   "mutate_replace"  appends in place and returns another, new list.
\*   "nofn"     update_atomic(path) with fn None: no transform is called.
\*   "raise"    raises before touching the data.
\* list.append on a value that is no list raises AttributeError.
Fn(o, d, t) ==
  CASE o = "append" ->
         IF IsList(d)
           THEN [out |-> Append(d, t), same |-> TRUE, arg |-> Append(d, t), raises |-> FALSE]
           ELSE [out |-> <<t>>, same |-> FALSE, arg |-> d, raises |-> FALSE]
    [] o = "mutate" ->
         IF IsList(d)
           THEN [out |-> None, same |-> FALSE, arg |-> Append(d, t), raises |-> FALSE]
           ELSE [out |-> None, same |-> FALSE, arg |-> d, raises |-> TRUE]
    [] o = "replace" ->
         [out |-> <<t>>, same |-> FALSE, arg |-> d, raises |-> FALSE]
    [] o = "mutate_replace" ->
         IF IsList(d)
           THEN [out |-> <<t>>, same |-> FALSE, arg |-> Append(d, t), raises |-> FALSE]
           ELSE [out |-> None, same |-> FALSE, arg |-> d, raises |-> TRUE]
    [] o = "nofn" ->
         [out |-> None, same |-> FALSE, arg |-> d, raises |-> FALSE]
    [] OTHER ->
         [out |-> None, same |-> FALSE, arg |-> d, raises |-> TRUE]

\* Mutant of Persist: the input object is persisted whatever fn returned.
PersistInput(arg, out, same) == arg

\* if out is not None and out is not data: data = out
Persist(arg, out, same) == IF out # None /\ ~same THEN out ELSE arg

\* Mutant of ReadTransform: the transform's exception is swallowed and the
\* call goes on to rotate and write what it read.
ReadTransformSwallow(p) ==
  /\ pc[p] = "read"
  /\ LET r == ReadJson(file, backups, defaults[p])
         f == Fn(op[p], r.val, Tag(cid[p]))
     IN  IF f.raises
           THEN /\ data' = [data EXCEPT ![p] = r.val]
                /\ UNCHANGED <<defaults, ret>>
           ELSE /\ data' = [data EXCEPT ![p] = Persist(f.arg, f.out, f.same)]
                /\ ret' = [ret EXCEPT ![p] = f.out]
                /\ defaults' = IF r.isDefault
                                 THEN [defaults EXCEPT ![p] = f.arg]
                                 ELSE defaults
  /\ pc' = [pc EXCEPT ![p] = "rotate"]
  /\ UNCHANGED <<now, marker, file, backups, tmp, op, ncalls, cid, start, err,
                 outcome, result, staleSeen>>

\* data = read_json(path); ret = None; out = fn(data); data = out when out
\* is not None and is another object; ret = out. When read_json handed out
\* the list of _DEFAULTS, what fn does to its argument in place it does to
\* that list.
ReadTransform(p) ==
  /\ pc[p] = "read"
  /\ LET r == ReadJson(file, backups, defaults[p])
         f == Fn(op[p], r.val, Tag(cid[p]))
     IN  IF f.raises
           THEN /\ err' = [err EXCEPT ![p] = "TransformError"]
                /\ pc' = [pc EXCEPT ![p] = "release"]
                /\ UNCHANGED <<data, defaults, ret>>
           ELSE /\ data' = [data EXCEPT ![p] = Persist(f.arg, f.out, f.same)]
                /\ ret' = [ret EXCEPT ![p] = f.out]
                /\ defaults' = IF r.isDefault
                                 THEN [defaults EXCEPT ![p] = f.arg]
                                 ELSE defaults
                /\ pc' = [pc EXCEPT ![p] = "rotate"]
                /\ UNCHANGED err
  /\ UNCHANGED <<now, marker, file, backups, tmp, op, ncalls, cid, start, outcome,
                 result, staleSeen>>

\* ------------------------------------------------------- _rotate_backup
Min(a, b) == IF a <= b THEN a ELSE b

\* snaps[BACKUP_RETAIN_PER_FILE:] are unlinked.
Prune(bk) ==
  IF BACKUP_RETAIN_PER_FILE > 0
    THEN LET snaps == SortedDesc(DOMAIN bk)
             keep  == {snaps[i] : i \in 1..Min(BACKUP_RETAIN_PER_FILE, Len(snaps))}
         IN  [t \in keep |-> bk[t]]
    ELSE bk

\* shutil.copy2(path, BACKUP_DIR / f"{stem}_{ts}.json"), ts to the second.
CopyTo(bk, ts, body) ==
  [t \in DOMAIN bk \cup {ts} |-> IF t = ts THEN body ELSE bk[t]]

RotateBackup(f, bk, ts) ==
  IF f.kind = "absent" THEN bk ELSE Prune(CopyTo(bk, ts, f))

\* _rotate_backup(path), then _atomic_write_text opens its temp file, which
\* holds nothing yet.
Rotate(p) ==
  /\ pc[p] = "rotate"
  /\ backups' = RotateBackup(file, backups, now)
  /\ tmp' = [tmp EXCEPT ![p] = Partial]
  /\ pc' = [pc EXCEPT ![p] = "write_tmp"]
  /\ UNCHANGED <<now, marker, file, defaults, op, ncalls, cid, start, data, err,
                 outcome, result, ret, staleSeen>>

\* Mutant of RotateFails: the exception of the copy or of an unlink is not
\* swallowed and ends the call.
RotateFailsRaises(p) ==
  /\ pc[p] = "rotate"
  /\ file.kind # "absent"
  /\ err' = [err EXCEPT ![p] = "IOError"]
  /\ pc' = [pc EXCEPT ![p] = "release"]
  /\ UNCHANGED <<now, marker, file, backups, tmp, defaults, op, ncalls, cid, start,
                 data, outcome, result, ret, staleSeen>>

\* _rotate_backup(path) in which shutil.copy2 raises (leaving no snapshot
\* of this second, or a prefix of one) or some unlink of the pruning raises
\* (leaving that old snapshot): each exception is swallowed, and
\* _atomic_write_text opens its temp file.
RotateFails(p) ==
  /\ pc[p] = "rotate"
  /\ file.kind # "absent"
  /\ \E bk1 \in {backups, CopyTo(backups, now, Partial), CopyTo(backups, now, file)} :
       \E K \in SUBSET (DOMAIN bk1) :
         /\ DOMAIN Prune(bk1) \subseteq K
         /\ bk1 # CopyTo(backups, now, file) \/ K # DOMAIN Prune(bk1)
         /\ backups' = [t \in K |-> bk1[t]]
  /\ tmp' = [tmp EXCEPT ![p] = Partial]
  /\ pc' = [pc EXCEPT ![p] = "write_tmp"]
  /\ UNCHANGED <<now, marker, file, defaults, op, ncalls, cid, start, data, err,
                 outcome, result, ret, staleSeen>>

\* --------------------------------------------------- _atomic_write_text
\* Mutant of WriteTmp: the text is written to the real name, not to a
\* temp file.
WriteInPlace(p) ==
  /\ pc[p] = "write_tmp"
  /\ file' = Partial
  /\ pc' = [pc EXCEPT ![p] = "replace"]
  /\ UNCHANGED <<now, marker, backups, tmp, defaults, op, ncalls, cid, start,
                 data, err, outcome, result, ret, staleSeen>>

\* f.write(text); f.flush(); os.fsync(...), text = json.dumps(data).
WriteTmp(p) ==
  /\ pc[p] = "write_tmp"
  /\ tmp' = [tmp EXCEPT ![p] = Dumps(data[p])]
  /\ pc' = [pc EXCEPT ![p] = "replace"]
  /\ UNCHANGED <<now, marker, file, backups, defaults, op, ncalls, cid, start, data,
                 err, outcome, result, ret, staleSeen>>

\* os.replace(tmp, path)
Replace(p) ==
  /\ pc[p] = "replace"
  /\ file' = tmp[p]
  /\ tmp' = [tmp EXCEPT ![p] = Absent]
  /\ pc' = [pc EXCEPT ![p] = "release"]
  /\ UNCHANGED <<now, marker, backups, defaults, op, ncalls, cid, start, data,
                 err, outcome, result, ret, staleSeen>>

\* Mutant of WriteFails: no finally block, the exception leaves the call
\* with the lock still held.
WriteFailsNoFinally(p) ==
  /\ pc[p] \in {"write_tmp", "replace"}
  /\ outcome' = [outcome EXCEPT ![p] = "IOError"]
  /\ pc' = [pc EXCEPT ![p] = "idle"]
  /\ op' = [op EXCEPT ![p] = "none"]
  /\ data' = [data EXCEPT ![p] = <<>>]
  /\ tmp' = [tmp EXCEPT ![p] = Absent]
  /\ staleSeen' = [staleSeen EXCEPT ![p] = NoMarker]
  /\ UNCHANGED <<now, marker, file, backups, defaults, ncalls, cid, start, err,
                 result, ret>>

\* Mutant of WriteFails: a rename that fails leaves a part of the new text
\* under the real name.
WriteFailsTorn(p) ==
  /\ pc[p] \in {"write_tmp", "replace"}
  /\ file' = IF pc[p] = "replace" THEN Partial ELSE file
  /\ err' = [err EXCEPT ![p] = "IOError"]
  /\ pc' = [pc EXCEPT ![p] = "release"]
  /\ UNCHANGED <<now, marker, backups, tmp, defaults, op, ncalls, cid, start,
                 data, outcome, result, ret, staleSeen>>

\* The creation of the temp file, the write to it or os.replace raises
\* OSError: the exception leaves _atomic_write_text for the caller's finally
\* block.
WriteFails(p) ==
  /\ pc[p] \in {"write_tmp", "replace"}
  /\ err' = [err EXCEPT ![p] = "IOError"]
  /\ pc' = [pc EXCEPT ![p] = "release"]
  /\ UNCHANGED <<now, marker, file, backups, tmp, defaults, op, ncalls, cid, start,
                 data, outcome, result, ret, staleSeen>>

\* -------------------------------------------------------- _release_lock
\* Mutant of Release: a call that succeeds returns the data it persisted.
ReleaseReturnsData(p) ==
  /\ pc[p] = "release"
  /\ marker' = NoMarker
  /\ result' = [result EXCEPT ![p] = IF err[p] = "none" THEN data[p] ELSE <<>>]
  /\ ret' = [ret EXCEPT ![p] = None]
  /\ outcome' = [outcome EXCEPT ![p] = IF err[p] = "none" THEN op[p] ELSE err[p]]
  /\ err' = [err EXCEPT ![p] = "none"]
  /\ data' = [data EXCEPT ![p] = <<>>]
  /\ op' = [op EXCEPT ![p] = "none"]
  /\ staleSeen' = [staleSeen EXCEPT ![p] = NoMarker]
  /\ tmp' = [tmp EXCEPT ![p] = Absent]
  /\ pc' = [pc EXCEPT ![p] = "idle"]
  /\ UNCHANGED <<now, file, backups, defaults, ncalls, cid, start>>


\* finally: _release_lock(lock), which unlinks whatever marker is at the
\* lock path; then the call returns (update_atomic: ret; write_json:
\* nothing, which is None) or re-raises.
Release(p) ==
  /\ pc[p] = "release"
  /\ marker' = NoMarker
  /\ result' = [result EXCEPT ![p] = IF err[p] = "none" THEN ret[p] ELSE <<>>]
  /\ ret' = [ret EXCEPT ![p] = None]
  /\ outcome' = [outcome EXCEPT ![p] = IF err[p] = "none" THEN op[p] ELSE err[p]]
  /\ err' = [err EXCEPT ![p] = "none"]
  /\ data' = [data EXCEPT ![p] = <<>>]
  /\ op' = [op EXCEPT ![p] = "none"]
  /\ staleSeen' = [staleSeen EXCEPT ![p] = NoMarker]
  /\ tmp' = [tmp EXCEPT ![p] = Absent]
  /\ pc' = [pc EXCEPT ![p] = "idle"]
  /\ UNCHANGED <<now, file, backups, defaults, ncalls, cid, start>>

\* ---------------------------------------------------------------- crash
\* The process dies in the middle of a call: its memory is gone, what it
\* left on disk stays. The slot p is then free for a process started
\* afresh (the command is run again, the server restarted). A leaked temp
\* file has a name of its own, a fresh uuid, and nothing opens it again:
\* the model forgets it.
Crash(p) ==
  /\ pc[p] # "idle"
  /\ pc' = [pc EXCEPT ![p] = "idle"]
  /\ op' = [op EXCEPT ![p] = "none"]
  /\ outcome' = [outcome EXCEPT ![p] = "crashed"]
  /\ start' = [start EXCEPT ![p] = 0]
  /\ data' = [data EXCEPT ![p] = <<>>]
  /\ err' = [err EXCEPT ![p] = "none"]
  /\ result' = [result EXCEPT ![p] = <<>>]
  /\ ret' = [ret EXCEPT ![p] = None]
  /\ defaults' = [defaults EXCEPT ![p] = <<>>]
  /\ staleSeen' = [staleSeen EXCEPT ![p] = NoMarker]
  /\ tmp' = [tmp EXCEPT ![p] = Absent]
  /\ UNCHANGED <<now, marker, file, backups, ncalls, cid>>

\* The process dies inside shutil.copy2: the snapshot of this second holds
\* a prefix of the resource.
CrashInCopy(p) ==
  /\ pc[p] = "rotate"
  /\ file.kind # "absent"
  /\ backups' = CopyTo(backups, now, Partial)
  /\ pc' = [pc EXCEPT ![p] = "idle"]
  /\ op' = [op EXCEPT ![p] = "none"]
  /\ outcome' = [outcome EXCEPT ![p] = "crashed"]
  /\ start' = [start EXCEPT ![p] = 0]
  /\ data' = [data EXCEPT ![p] = <<>>]
  /\ err' = [err EXCEPT ![p] = "none"]
  /\ result' = [result EXCEPT ![p] = <<>>]
  /\ ret' = [ret EXCEPT ![p] = None]
  /\ defaults' = [defaults EXCEPT ![p] = <<>>]
  /\ staleSeen' = [staleSeen EXCEPT ![p] = NoMarker]
  /\ tmp' = [tmp EXCEPT ![p] = Absent]
  /\ UNCHANGED <<now, marker, file, ncalls, cid>>

Next == Tick \/ \E p \in Procs :
          \/ StartLocked(p) \/ TryCreate(p) \/ StatMarker(p)
          \/ UnlinkStale(p) \/ UnlinkAfterStatError(p) \/ TimeoutCheck(p)
          \/ ReadCall(p) \/ ReadTransform(p) \/ Rotate(p)
          \/ WriteTmp(p) \/ Replace(p) \/ WriteFails(p)
          \/ Release(p) \/ Crash(p) \/ CrashInCopy(p)

Spec == Init /\ [][Next]_vars

\* ------------------------------------------------- a caller working alone
\* One process makes its calls one after the other on a resource nobody
\* else touches and no earlier run left locked; the copy and the unlinks of
\* the rotation may fail, and so may the write.
Caller == 1

SeqInit == Init /\ marker = NoMarker

SeqNext ==
  \/ Tick
  \/ StartCall(Caller) \/ TryCreate(Caller) \/ ReadCall(Caller)
  \/ ReadTransform(Caller) \/ Rotate(Caller) \/ RotateFails(Caller)
  \/ WriteTmp(Caller) \/ Replace(Caller) \/ WriteFails(Caller)
  \/ Release(Caller)

SeqSpec == SeqInit /\ [][SeqNext]_vars

\* ------------------------------------------------------ request handlers
\* The handlers of the server, one request per process, on a thesis.json
\* that holds two records (0: as first stored), with no marker left by an
\* earlier run and within one clock second: no marker is ever stale.
\*
\* A request handler of api/main.py that changes record i of thesis.json
\* (professor_approve, professor_score, student_thesis_metadata):
\* th = read_json(THESIS_F), outside any lock; the record is looked up, and
\* HTTPException is raised when it is not there; the record is changed in
\* the list read; atomic_write(THESIS_F, th), which is write_json, is
\* called and enters _acquire_lock. Process p changes record p.
HandlerRead(p) ==
  /\ pc[p] = "idle"
  /\ ncalls < MaxCalls
  /\ ncalls' = ncalls + 1
  /\ cid' = [cid EXCEPT ![p] = ncalls + 1]
  /\ err' = [err EXCEPT ![p] = "none"]
  /\ result' = [result EXCEPT ![p] = <<>>]
  /\ ret' = [ret EXCEPT ![p] = None]
  /\ staleSeen' = [staleSeen EXCEPT ![p] = NoMarker]
  /\ LET th == ReadJson(file, backups, defaults[p]).val
     IN  IF IsList(th) /\ p <= Len(th)
           THEN /\ data' = [data EXCEPT ![p] = [th EXCEPT ![p] = Tag(ncalls + 1)]]
                /\ op' = [op EXCEPT ![p] = "handler"]
                /\ start' = [start EXCEPT ![p] = now]
                /\ outcome' = [outcome EXCEPT ![p] = "none"]
                /\ pc' = [pc EXCEPT ![p] = "create"]
           ELSE /\ outcome' = [outcome EXCEPT ![p] = "HTTPException"]
                /\ UNCHANGED <<data, op, start, pc>>
  /\ UNCHANGED <<now, marker, file, backups, tmp, defaults>>

ApiInit ==
  /\ now = 0
  /\ marker = NoMarker
  /\ file = Dumps(<<0, 0>>)
  /\ backups = NoBackups
  /\ InitLocals

ApiNext ==
  \E p \in Procs :
     \/ HandlerRead(p) \/ TryCreate(p) \/ StatMarker(p)
     \/ UnlinkAfterStatError(p) \/ TimeoutCheck(p)
     \/ Rotate(p) \/ WriteTmp(p) \/ Replace(p) \/ Release(p)

ApiSpec == ApiInit /\ [][ApiNext]_vars

\* ===================================================== several resources
\* The specifications below look at the data directory as a whole: file[r]
\* is the file of resource r, marker[n] the lock marker of name n,
\* defaults[p][r] is _DEFAULTS[path of r] in process p, and backups is the
\* one directory _bak that all resources share, snapshot name -> body.
\* op[p] names the call and the resource it is made on.
Resources == {"thesis", "defended_thesis", "notifications", "courses"}

\* path.stem, as the words that the underscores separate.
Stem(r) ==
  CASE r = "thesis" -> <<"thesis">>
    [] r = "defended_thesis" -> <<"defended", "thesis">>
    [] r = "notifications" -> <<"notifications">>
    [] r = "courses" -> <<"courses">>

\* _lock_path(path): the file name and its suffix, with ".lock" added.
LockPath(r) == Stem(r) \o <<"json", "lock">>

\* The lock markers the resources can have.
LockPaths == {LockPath(r) : r \in Resources}

\* BACKUP_DIR / f"{path.stem}_{ts}.json"
SnapName(r, ts) == [stem |-> Stem(r), ts |-> ts]

\* Mutant of GlobSnaps: the pattern is *_{stem}_*.json, which also matches
\* the names that end in the stem.
GlobSnapsAnywhere(r, bk) ==
  {n \in DOMAIN bk :
     /\ Len(Stem(r)) <= Len(n.stem)
     /\ SubSeq(n.stem, Len(n.stem) - Len(Stem(r)) + 1, Len(n.stem)) = Stem(r)}

\* BACKUP_DIR.glob(f"{path.stem}_*.json"): the names that start with the
\* stem and an underscore.
GlobSnaps(r, bk) ==
  {n \in DOMAIN bk :
     /\ Len(Stem(r)) <= Len(n.stem)
     /\ SubSeq(n.stem, 1, Len(Stem(r))) = Stem(r)}

\* The snapshots the glob finds for r, by timestamp.
SnapsOf(r, bk) ==
  LET G == GlobSnaps(r, bk)
  IN  [t \in {n.ts : n \in G} |-> bk[CHOOSE n \in G : n.ts = t]]

\* _rotate_backup(path of r) on the shared directory: the copy, then the
\* unlink of what the glob finds beyond the newest BACKUP_RETAIN_PER_FILE.
RotateIn(r, f, bk, ts) ==
  IF f.kind = "absent" THEN bk
  ELSE LET bk1  == CopyTo(bk, SnapName(r, ts), f)
           G    == GlobSnaps(r, bk1)
           keep == DOMAIN Prune(SnapsOf(r, bk1))
       IN  [n \in (DOMAIN bk1 \ G) \cup {m \in G : m.ts \in keep} |-> bk1[n]]

\* read_json(path of r) in process p.
ReadIn(p, r) == ReadJson(file[r], SnapsOf(r, backups), defaults[p][r])

\* p is in no call.
NoCall == [call |-> "none", res |-> "none"]

\* No process is in a call, no resource is locked, _DEFAULTS is as written
\* in the source.
DirInitLocals ==
  /\ now = 0
  /\ marker = [n \in LockPaths |-> NoMarker]
  /\ tmp = [p \in Procs |-> Absent]
  /\ defaults = [p \in Procs |-> [r \in Resources |-> <<>>]]
  /\ pc = [p \in Procs |-> "idle"]
  /\ op = [p \in Procs |-> NoCall]
  /\ ncalls = 0
  /\ cid = [p \in Procs |-> 0]
  /\ start = [p \in Procs |-> 0]
  /\ data = [p \in Procs |-> <<>>]
  /\ err = [p \in Procs |-> "none"]
  /\ outcome = [p \in Procs |-> "none"]
  /\ result = [p \in Procs |-> <<>>]
  /\ ret = [p \in Procs |-> None]
  /\ staleSeen = [p \in Procs |-> NoMarker]

\* ------------------------------------------------------- thesis records
\* JSON values inside a record: null, a scalar (a string, a number), an
\* array, an object. A record itself, and the inside of an object value,
\* is a function from field names to values.
NoneV   == <<"null", 0>>
Str(n)  == <<"scalar", n>>
Arr(s)  == <<"array", s>>
Dict(d) == <<"object", d>>
IsDict(v) == v[1] = "object"

\* d.get(k)
Get(d, k) == IF k \in DOMAIN d THEN d[k] ELSE NoneV

\* not v, for the values a key field takes: None and "" are falsy.
Falsy(v) == v = NoneV \/ v = Str(0)

\* Mutant of _deep_merge: {**existing, **incoming}, objects are replaced
\* like scalars.
ShallowMerge(existing, incoming) ==
  [k \in DOMAIN existing \cup DOMAIN incoming |->
     IF k \in DOMAIN incoming THEN incoming[k] ELSE existing[k]]

\* _deep_merge(existing, incoming)
RECURSIVE DeepMerge(_, _)
DeepMerge(existing, incoming) ==
  [k \in DOMAIN existing \cup DOMAIN incoming |->
     IF k \notin DOMAIN incoming THEN existing[k]
     ELSE IF IsDict(incoming[k]) /\ IsDict(Get(existing, k))
            THEN Dict(DeepMerge(existing[k][2], incoming[k][2]))
            ELSE incoming[k]]

\* The places of the records with the key (sc, course) in a list.
KeyMatches(list, sc, course) ==
  {i \in 1..Len(list) :
     Get(list[i], "student_code") = sc /\ Get(list[i], "course_id") = course}

\* upsert_thesis._fn(theses), for a theses that is a list: the first record
\* with the key is replaced by the merge, else the candidate is appended;
\* the list is changed in place and returned.
UpsertFn(theses, thesis) ==
  LET M == KeyMatches(theses, Get(thesis, "student_code"), Get(thesis, "course_id"))
  IN  IF M = {} THEN Append(theses, thesis)
      ELSE LET i == CHOOSE i \in M : \A j \in M : i <= j
           IN  [theses EXCEPT ![i] = DeepMerge(theses[i], thesis)]

\* The key fields of a record.
KeyOf(sc, course) == [student_code |-> Str(sc), course_id |-> Str(course)]

\* The candidates upsert_thesis is called with: the keys, alone or with a
\* title, files (an object, or a scalar where an object is stored) or
\* keywords (an array); and candidates whose key is not complete.
ThesisKeys == {<<1, 1>>, <<1, 2>>, <<2, 1>>}
ThesisFields ==
  { [k \in {} |-> NoneV],
    [title |-> Str(2)],
    [title |-> Str(2), files |-> Dict([pdf |-> Str(2)])],
    [files |-> Dict([img |-> Str(2), meta |-> Dict([pages |-> Str(2)])])],
    [files |-> Str(2)],
    [keywords |-> Arr(<<2>>)] }
ThesisInputs ==
  {KeyOf(k[1], k[2]) @@ e : k \in ThesisKeys, e \in ThesisFields}
    \cup {[student_code |-> Str(1)], [student_code |-> Str(0), course_id |-> Str(1)]}

\* A thesis.json of an earlier run.
StoredTheses ==
  << KeyOf(1, 1) @@ [title |-> Str(1), status |-> Str(1), keywords |-> Arr(<<1, 1>>),
                     files |-> Dict([pdf |-> Str(1), img |-> Str(1),
                                     meta |-> Dict([pages |-> Str(1), lang |-> Str(1)])])],
     KeyOf(2, 1) @@ [title |-> Str(1)] >>

\* upsert_thesis(thesis), from its first line to its return, with no other
\* caller at work and no failure of the disk: the check of the key, then
\* update_atomic(THESIS_F, _fn): the lock is taken, read_json, _fn (which
\* changes the list it was given, the list of _DEFAULTS when read_json fell
\* back to it, and returns it), the rotation, the atomic write, the release.
UpsertThesis(p) ==
  /\ pc[p] = "idle"
  /\ ncalls < MaxCalls
  /\ ncalls' = ncalls + 1
  /\ cid' = [cid EXCEPT ![p] = ncalls + 1]
  /\ result' = [result EXCEPT ![p] = None]
  /\ \E thesis \in ThesisInputs :
       /\ data' = [data EXCEPT ![p] = <<thesis>>]
       /\ IF Falsy(Get(thesis, "student_code")) \/ Falsy(Get(thesis, "course_id"))
            THEN /\ outcome' = [outcome EXCEPT ![p] = "ValueError"]
                 /\ UNCHANGED <<file, backups, defaults>>
            ELSE LET r   == ReadIn(p, "thesis")
                     out == UpsertFn(r.val, thesis)
                 IN  /\ ~marker[LockPath("thesis")].exists
                     /\ backups' = RotateIn("thesis", file["thesis"], backups, now)
                     /\ file' = [file EXCEPT !["thesis"] = Dumps(out)]
                     /\ defaults' = IF r.isDefault
                                      THEN [defaults EXCEPT ![p]["thesis"] = out]
                                      ELSE defaults
                     /\ outcome' = [outcome EXCEPT ![p] = "upsert_thesis"]
  /\ UNCHANGED <<now, marker, tmp, pc, op, start, err, ret, staleSeen>>

\* ------------------------------------------------------ defense archive
\* Mutant of ArchiveFn: the records with the key are not filtered out.
ArchiveFnKeepsOld(archive, rec) == Append(archive, rec)

\* archive_defense._fn(archive), for an archive that is a list: a new list
\* of the records with another key, and rec at its end.
ArchiveFn(archive, rec) ==
  Append(SelectSeq(archive,
                   LAMBDA r : ~(/\ Get(r, "student_code") = Get(rec, "student_code")
                                /\ Get(r, "course_id") = Get(rec, "course_id"))),
         rec)

\* The record archive_defense builds from its arguments; of the fields
\* that carry the payload (title, year, judges, scores, ...) the model
\* keeps the title.
DefenseRec(sc, course, title) == KeyOf(sc, course) @@ [title |-> Str(title)]

\* A defended_thesis.json of an earlier run; a legacy file may hold a key
\* twice.
StoredArchive ==
  << DefenseRec(1, 1, 1), DefenseRec(1, 2, 1), DefenseRec(2, 1, 1), DefenseRec(1, 2, 1) >>

\* The notification repo.py's _emit builds for call c.
Notif(c, rec) ==
  [id |-> Str(c), event |-> Str(1),
   payload |-> Dict([student |-> rec.student_code, course |-> rec.course_id])]

\* archive_defense(student_code, course_id, title, ...), from its first
\* line to its return, with no other caller at work and no failure of the
\* disk: update_atomic(DEFENDED_F, _fn), then _emit("finalized", ...),
\* which is repo.py's own _emit (read_json(NOTIF_F), append, write_json);
\* rec is returned.
ArchiveDefense(p) ==
  /\ pc[p] = "idle"
  /\ ncalls < MaxCalls
  /\ ncalls' = ncalls + 1
  /\ cid' = [cid EXCEPT ![p] = ncalls + 1]
  /\ ~marker[LockPath("defended_thesis")].exists
  /\ ~marker[LockPath("notifications")].exists
  /\ \E k \in ThesisKeys, title \in {2, 3} :
       LET rec   == DefenseRec(k[1], k[2], title)
           out   == ArchiveFn(ReadIn(p, "defended_thesis").val, rec)
           bk1   == RotateIn("defended_thesis", file["defended_thesis"], backups, now)
           n     == ReadJson(file["notifications"], SnapsOf("notifications", bk1),
                             defaults[p]["notifications"])
           notes == Append(n.val, Notif(ncalls + 1, rec))
       IN  /\ data' = [data EXCEPT ![p] = <<rec>>]
           /\ result' = [result EXCEPT ![p] = <<rec>>]
           /\ backups' = RotateIn("notifications", file["notifications"], bk1, now)
           /\ file' = [file EXCEPT !["defended_thesis"] = Dumps(out),
                                   !["notifications"] = Dumps(notes)]
           /\ defaults' = IF n.isDefault
                            THEN [defaults EXCEPT ![p]["notifications"] = notes]
                            ELSE defaults
  /\ outcome' = [outcome EXCEPT ![p] = "archive_defense"]
  /\ UNCHANGED <<now, marker, tmp, pc, op, start, err, ret, staleSeen>>

\* The data directory the record functions are called on: thesis.json
\* empty, as an earlier run left it, or unreadable with no snapshot;
\* defended_thesis.json empty or as an earlier run left it.
RecordInit ==
  /\ DirInitLocals
  /\ backups = NoBackups
  /\ \E t \in {Dumps(<<>>), Dumps(StoredTheses), Garbage},
        a \in {Dumps(<<>>), Dumps(StoredArchive)} :
       file = [r \in Resources |->
                 IF r = "thesis" THEN t
                 ELSE IF r = "defended_thesis" THEN a ELSE Dumps(<<>>)]

RecordNext == UpsertThesis(Caller) \/ ArchiveDefense(Caller)

RecordSpec == RecordInit /\ [][RecordNext]_vars

\* --------------------------------------------------------- notifications
\* The two emitters of the program on notifications.json, one emit per
\* process at a time, with no marker left by an earlier run and within one
\* clock second: core.notifications.emit, which the handlers and the CLI
\* call, and repo.py's own _emit, which archive_defense and
\* push_notification call (the import of core.notifications.emit inside
\* repo.py fails on the circular import, so repo.py always binds its own).
\*
\* data[-NOTIF_MEMORY_MAX:]
LastN(s, n) == IF Len(s) > n THEN SubSeq(s, Len(s) - n + 1, Len(s)) ELSE s

\* p is inside "with _FileLock(_LOCK_NOTIF_F)": it holds the flock.
InFlock(p) == op[p] = "emit" /\ pc[p] # "idle"

\* core.notifications.emit up to the call of atomic_write, for a record
\* that is not deduplicated: _append_to_notif_list enters _FileLock (flock
\* waits until no other process holds it), read_json, append, the cut to
\* the last NOTIF_MEMORY_MAX, and atomic_write(NOTIF_F, data), which is
\* write_json, enters _acquire_lock. The flock is dropped when write_json
\* has returned.
EmitAppend(p) ==
  /\ pc[p] = "idle"
  /\ ncalls < MaxCalls
  /\ \A q \in Procs : ~InFlock(q)
  /\ ncalls' = ncalls + 1
  /\ cid' = [cid EXCEPT ![p] = ncalls + 1]
  /\ LET d == ReadJson(file, backups, defaults[p])
         l == IF IsList(d.val) THEN Append(d.val, Tag(ncalls + 1)) ELSE <<Tag(ncalls + 1)>>
     IN  /\ data' = [data EXCEPT ![p] = LastN(l, NOTIF_MEMORY_MAX)]
         /\ defaults' = IF d.isDefault /\ IsList(d.val)
                          THEN [defaults EXCEPT ![p] = l]
                          ELSE defaults
  /\ op' = [op EXCEPT ![p] = "emit"]
  /\ start' = [start EXCEPT ![p] = now]
  /\ err' = [err EXCEPT ![p] = "none"]
  /\ outcome' = [outcome EXCEPT ![p] = "none"]
  /\ result' = [result EXCEPT ![p] = <<>>]
  /\ ret' = [ret EXCEPT ![p] = None]
  /\ staleSeen' = [staleSeen EXCEPT ![p] = NoMarker]
  /\ pc' = [pc EXCEPT ![p] = "create"]
  /\ UNCHANGED <<now, marker, file, backups, tmp>>

\* repo.py's _emit up to the call of write_json: read_json(NOTIF_F), the
\* list test, append, and write_json(NOTIF_F, data) enters _acquire_lock.
RepoEmit(p) ==
  /\ pc[p] = "idle"
  /\ ncalls < MaxCalls
  /\ ncalls' = ncalls + 1
  /\ cid' = [cid EXCEPT ![p] = ncalls + 1]
  /\ LET d == ReadJson(file, backups, defaults[p])
         l == IF IsList(d.val) THEN Append(d.val, Tag(ncalls + 1)) ELSE <<Tag(ncalls + 1)>>
     IN  /\ data' = [data EXCEPT ![p] = l]
         /\ defaults' = IF d.isDefault /\ IsList(d.val)
                          THEN [defaults EXCEPT ![p] = l]
                          ELSE defaults
  /\ op' = [op EXCEPT ![p] = "_emit"]
  /\ start' = [start EXCEPT ![p] = now]
  /\ err' = [err EXCEPT ![p] = "none"]
  /\ outcome' = [outcome EXCEPT ![p] = "none"]
  /\ result' = [result EXCEPT ![p] = <<>>]
  /\ ret' = [ret EXCEPT ![p] = None]
  /\ staleSeen' = [staleSeen EXCEPT ![p] = NoMarker]
  /\ pc' = [pc EXCEPT ![p] = "create"]
  /\ UNCHANGED <<now, marker, file, backups, tmp>>

\* notifications.json is empty, or holds a full window of earlier records.
NotifInit ==
  /\ now = 0
  /\ marker = NoMarker
  /\ file \in {Dumps(<<>>), Dumps([i \in 1..NOTIF_MEMORY_MAX |-> 0])}
  /\ backups = NoBackups
  /\ InitLocals

NotifNext ==
  \E p \in Procs :
     \/ EmitAppend(p) \/ RepoEmit(p) \/ TryCreate(p) \/ StatMarker(p)
     \/ UnlinkAfterStatError(p) \/ TimeoutCheck(p)
     \/ Rotate(p) \/ WriteTmp(p) \/ Replace(p) \/ Release(p)

NotifSpec == NotifInit /\ [][NotifNext]_vars

\* ------------------------------------- concurrent calls on two resources
\* Two processes call update_atomic (append_json) on thesis.json and on
\* defended_thesis.json, whose snapshots lie side by side in _bak and whose
\* names end alike. The resource of p's call is op[p].res.
DirResources == {"thesis", "defended_thesis"}

\* The marker of the resource p's call is made on.
OwnLock(p) == LockPath(op[p].res)

\* update_atomic(path, fn) is called and enters _acquire_lock.
DirStart(p) ==
  /\ pc[p] = "idle"
  /\ ncalls < MaxCalls
  /\ \E r \in DirResources : op' = [op EXCEPT ![p] = [call |-> "append", res |-> r]]
  /\ ncalls' = ncalls + 1
  /\ cid' = [cid EXCEPT ![p] = ncalls + 1]
  /\ start' = [start EXCEPT ![p] = now]
  /\ err' = [err EXCEPT ![p] = "none"]
  /\ outcome' = [outcome EXCEPT ![p] = "none"]
  /\ result' = [result EXCEPT ![p] = <<>>]
  /\ staleSeen' = [staleSeen EXCEPT ![p] = NoMarker]
  /\ pc' = [pc EXCEPT ![p] = "create"]
  /\ UNCHANGED <<now, marker, file, backups, tmp, defaults, data, ret>>

\* os.open(lockp, O_CREAT | O_EXCL | O_WRONLY)
DirTryCreate(p) ==
  /\ pc[p] = "create"
  /\ IF marker[OwnLock(p)].exists
       THEN /\ pc' = [pc EXCEPT ![p] = "stat"]
            /\ UNCHANGED <<marker, start>>
       ELSE /\ marker' = [marker EXCEPT ![OwnLock(p)] = Marker(cid[p], now)]
            /\ start' = [start EXCEPT ![p] = 0]
            /\ pc' = [pc EXCEPT ![p] = "read"]
  /\ UNCHANGED <<now, file, backups, tmp, defaults, op, ncalls, cid, data,
                 err, outcome, result, ret, staleSeen>>

\* lockp.stat() and the age test
DirStatMarker(p) ==
  /\ pc[p] = "stat"
  /\ IF ~marker[OwnLock(p)].exists
       THEN /\ pc' = [pc EXCEPT ![p] = "unlink_exc"]
            /\ UNCHANGED staleSeen
       ELSE IF IsStale(marker[OwnLock(p)], now)
         THEN /\ pc' = [pc EXCEPT ![p] = "unlink_stale"]
              /\ staleSeen' = [staleSeen EXCEPT ![p] = marker[OwnLock(p)]]
         ELSE /\ pc' = [pc EXCEPT ![p] = "timeout_check"]
              /\ UNCHANGED staleSeen
  /\ UNCHANGED <<now, marker, file, backups, tmp, defaults, op, ncalls, cid, start,
                 data, err, outcome, result, ret>>

\* lockp.unlink(missing_ok=True); continue   (either branch)
DirUnlink(p) ==
  /\ pc[p] \in {"unlink_stale", "unlink_exc"}
  /\ marker' = [marker EXCEPT ![OwnLock(p)] = NoMarker]
  /\ pc' = [pc EXCEPT ![p] = "create"]
  /\ UNCHANGED <<now, file, backups, tmp, defaults, op, ncalls, cid, start, data,
                 err, outcome, result, ret, staleSeen>>

\* if time.time() - start > timeout: raise TimeoutError; else sleep, retry.
DirTimeoutCheck(p) ==
  /\ pc[p] = "timeout_check"
  /\ IF TimedOut(start[p], now)
       THEN /\ pc' = [pc EXCEPT ![p] = "idle"]
            /\ outcome' = [outcome EXCEPT ![p] = "TimeoutError"]
            /\ start' = [start EXCEPT ![p] = 0]
            /\ staleSeen' = [staleSeen EXCEPT ![p] = NoMarker]
            /\ op' = [op EXCEPT ![p] = NoCall]
       ELSE /\ pc' = [pc EXCEPT ![p] = "create"]
            /\ UNCHANGED <<outcome, start, staleSeen, op>>
  /\ UNCHANGED <<now, marker, file, backups, tmp, defaults, ncalls, cid, data,
                 err, result, ret>>

\* data = read_json(path); out = fn(data), append_json's _fn
DirReadTransform(p) ==
  /\ pc[p] = "read"
  /\ LET r == ReadIn(p, op[p].res)
         f == Fn("append", r.val, Tag(cid[p]))
     IN  /\ data' = [data EXCEPT ![p] = Persist(f.arg, f.out, f.same)]
         /\ ret' = [ret EXCEPT ![p] = f.out]
         /\ defaults' = IF r.isDefault
                          THEN [defaults EXCEPT ![p][op[p].res] = f.arg]
                          ELSE defaults
  /\ pc' = [pc EXCEPT ![p] = "rotate"]
  /\ UNCHANGED <<now, marker, file, backups, tmp, op, ncalls, cid, start, err,
                 outcome, result, staleSeen>>

\* _rotate_backup(path)
DirRotate(p) ==
  /\ pc[p] = "rotate"
  /\ backups' = RotateIn(op[p].res, file[op[p].res], backups, now)
  /\ pc' = [pc EXCEPT ![p] = "write_tmp"]
  /\ UNCHANGED <<now, marker, file, tmp, defaults, op, ncalls, cid, start, data, err,
                 outcome, result, ret, staleSeen>>

\* _atomic_write_text(path, text): the temp file, then os.replace
DirWrite(p) ==
  /\ pc[p] = "write_tmp"
  /\ file' = [file EXCEPT ![op[p].res] = Dumps(data[p])]
  /\ pc' = [pc EXCEPT ![p] = "release"]
  /\ UNCHANGED <<now, marker, backups, tmp, defaults, op, ncalls, cid, start, data,
                 err, outcome, result, ret, staleSeen>>

\* finally: _release_lock(lock); return ret
DirRelease(p) ==
  /\ pc[p] = "release"
  /\ marker' = [marker EXCEPT ![OwnLock(p)] = NoMarker]
  /\ result' = [result EXCEPT ![p] = ret[p]]
  /\ ret' = [ret EXCEPT ![p] = None]
  /\ outcome' = [outcome EXCEPT ![p] = op[p].call]
  /\ data' = [data EXCEPT ![p] = <<>>]
  /\ op' = [op EXCEPT ![p] = NoCall]
  /\ staleSeen' = [staleSeen EXCEPT ![p] = NoMarker]
  /\ pc' = [pc EXCEPT ![p] = "idle"]
  /\ UNCHANGED <<now, file, backups, tmp, defaults, ncalls, cid, start, err>>

\* thesis.json empty or unreadable; defended_thesis.json with the two
\* snapshots an earlier run left of it.
DirInit ==
  /\ DirInitLocals
  /\ \E t \in {Dumps(<<>>), Garbage} :
       file = [r \in Resources |-> IF r = "thesis" THEN t ELSE Dumps(<<>>)]
  /\ backups = [n \in {SnapName("defended_thesis", -20), SnapName("defended_thesis", -10)} |->
                  IF n.ts = -20 THEN Dumps(<<>>) ELSE Dumps(<<0>>)]

DirNext ==
  \/ Tick
  \/ \E p \in Procs :
       \/ DirStart(p) \/ DirTryCreate(p) \/ DirStatMarker(p) \/ DirUnlink(p)
       \/ DirTimeoutCheck(p) \/ DirReadTransform(p) \/ DirRotate(p)
       \/ DirWrite(p) \/ DirRelease(p)

DirSpec == DirInit /\ [][DirNext]_vars

\* --------------------------------------------------- bootstrap and purge
\* Processes that start on a data directory, each running the bootstrap of
\* repo.py (the loop over _DEFAULTS at import) before its calls, within one
\* clock second; the directory is new, or an earlier run left it with a
\* stale marker.
BootPcs == {"boot", "boot_write", "boot_replace"}

\* _ensure_file(path, default): if not path.exists()
EnsureFile(p) ==
  /\ pc[p] = "boot"
  /\ pc' = [pc EXCEPT ![p] = IF file.kind = "absent" THEN "boot_write" ELSE "idle"]
  /\ UNCHANGED <<now, marker, file, backups, tmp, defaults, op, ncalls, cid, start,
                 data, err, outcome, result, ret, staleSeen>>

\* _ensure_file's _atomic_write_text(path, json.dumps(default)): the temp
\* file is written.
EnsureWriteTmp(p) ==
  /\ pc[p] = "boot_write"
  /\ tmp' = [tmp EXCEPT ![p] = Dumps(<<>>)]
  /\ pc' = [pc EXCEPT ![p] = "boot_replace"]
  /\ UNCHANGED <<now, marker, file, backups, defaults, op, ncalls, cid, start, data,
                 err, outcome, result, ret, staleSeen>>

\* _ensure_file's _atomic_write_text: os.replace(tmp, path)
EnsureReplace(p) ==
  /\ pc[p] = "boot_replace"
  /\ file' = tmp[p]
  /\ tmp' = [tmp EXCEPT ![p] = Absent]
  /\ pc' = [pc EXCEPT ![p] = "idle"]
  /\ UNCHANGED <<now, marker, backups, defaults, op, ncalls, cid, start, data,
                 err, outcome, result, ret, staleSeen>>

\* The process dies in its bootstrap; the process started in its place
\* runs the bootstrap again.
CrashInBoot(p) ==
  /\ pc[p] \in {"boot_write", "boot_replace"}
  /\ tmp' = [tmp EXCEPT ![p] = Absent]
  /\ pc' = [pc EXCEPT ![p] = "boot"]
  /\ UNCHANGED <<now, marker, file, backups, defaults, op, ncalls, cid, start, data,
                 err, outcome, result, ret, staleSeen>>

\* A process that has finished its bootstrap dies in a call (Crash); the
\* bootstrap of the process started in its place finds the file and does
\* nothing.
CrashAfterBoot(p) == pc[p] \notin BootPcs /\ Crash(p)

\* p is inside purge_all's "with _FileLock(_LOCK_NOTIF_F)".
InPurge(p) == op[p] = "purge" /\ pc[p] # "idle"

\* Mutant of Purge: the purge unlinks the resource file, as purge_all does
\* with the JSONL mirror.
PurgeUnlinks(p) ==
  /\ pc[p] = "idle"
  /\ ncalls < MaxCalls
  /\ \A q \in Procs : ~InPurge(q)
  /\ ncalls' = ncalls + 1
  /\ cid' = [cid EXCEPT ![p] = ncalls + 1]
  /\ file' = Absent
  /\ outcome' = [outcome EXCEPT ![p] = "purge"]
  /\ result' = [result EXCEPT ![p] = None]
  /\ UNCHANGED <<now, marker, backups, tmp, defaults, pc, op, start, data, err,
                 ret, staleSeen>>

\* purge_all() up to the call of atomic_write: _FileLock is entered (flock
\* waits until no other process holds it) and atomic_write(NOTIF_F, []),
\* which is write_json, enters _acquire_lock. The flock is dropped when
\* write_json has returned.
Purge(p) ==
  /\ pc[p] = "idle"
  /\ ncalls < MaxCalls
  /\ \A q \in Procs : ~InPurge(q)
  /\ ncalls' = ncalls + 1
  /\ cid' = [cid EXCEPT ![p] = ncalls + 1]
  /\ op' = [op EXCEPT ![p] = "purge"]
  /\ data' = [data EXCEPT ![p] = <<>>]
  /\ start' = [start EXCEPT ![p] = now]
  /\ err' = [err EXCEPT ![p] = "none"]
  /\ outcome' = [outcome EXCEPT ![p] = "none"]
  /\ result' = [result EXCEPT ![p] = <<>>]
  /\ ret' = [ret EXCEPT ![p] = None]
  /\ staleSeen' = [staleSeen EXCEPT ![p] = NoMarker]
  /\ pc' = [pc EXCEPT ![p] = "create"]
  /\ UNCHANGED <<now, marker, file, backups, tmp, defaults>>

\* A new data directory, or one an earlier run left with a stale marker.
BootInit ==
  /\ now = 0
  /\ \/ file = Absent /\ marker = NoMarker
     \/ file = Dumps(<<0>>) /\ marker = Marker(0, -70)
  /\ backups = NoBackups
  /\ tmp = [p \in Procs |-> Absent]
  /\ defaults = [p \in Procs |-> <<>>]
  /\ pc = [p \in Procs |-> "boot"]
  /\ op = [p \in Procs |-> "none"]
  /\ ncalls = 0
  /\ cid = [p \in Procs |-> 0]
  /\ start = [p \in Procs |-> 0]
  /\ data = [p \in Procs |-> <<>>]
  /\ err = [p \in Procs |-> "none"]
  /\ outcome = [p \in Procs |-> "none"]
  /\ result = [p \in Procs |-> <<>>]
  /\ ret = [p \in Procs |-> None]
  /\ staleSeen = [p \in Procs |-> NoMarker]

BootNext ==
  \E p \in Procs :
     \/ EnsureFile(p) \/ EnsureWriteTmp(p) \/ EnsureReplace(p) \/ CrashInBoot(p)
     \/ Purge(p) \/ StartLocked(p) \/ TryCreate(p) \/ StatMarker(p)
     \/ UnlinkStale(p) \/ UnlinkAfterStatError(p) \/ TimeoutCheck(p)
     \/ ReadCall(p) \/ ReadTransform(p) \/ Rotate(p)
     \/ WriteTmp(p) \/ Replace(p) \/ WriteFails(p)
     \/ Release(p) \/ CrashAfterBoot(p) \/ CrashInCopy(p)

BootSpec == BootInit /\ [][BootNext]_vars

\* ---------------------------------------------------------------------
\* register_student (repo.py:340-367) on students.json. A student record is
\* modelled by the fields the registration decides on: student_code, name
\* and email; password_hash, created_at and active are written and never
\* read by it. An e-mail address is its sequence of characters.
\* ---------------------------------------------------------------------

StudentCodes == {"s1", "s2"}
StudentNames == {"Sara", "Omid"}
Emails       == {<<>>, <<"s", "@", "u">>, <<"s", " ", "@">>}

\* _is_email(s): bool(s) and ("@" in s) and (" " not in s)
IsEmail(s) ==
  /\ s # <<>>
  /\ \E i \in 1..Len(s) : s[i] = "@"
  /\ \A i \in 1..Len(s) : s[i] # " "

\* validate_student(rec): name, student_code and password_hash are strings
\* on every call of register_student; the e-mail is tested when it is set.
ValidateStudent(rec) == rec.email = <<>> \/ IsEmail(rec.email)

StudentRec(code, name, email) ==
  [student_code |-> code, name |-> name, email |-> email]

\* Mutant of RegisterFn: the test for an existing student_code is left out.
RegisterFnNoCheck(students, rec) ==
  IF ~ValidateStudent(rec)
    THEN [raises |-> TRUE, out |-> students]
    ELSE [raises |-> FALSE, out |-> Append(students, rec)]

\* register_student's _fn(students). students.json holds a list on every
\* path (the default is [] and every write of it is a list), so the
\* isinstance branch is not taken.
RegisterFn(students, rec) ==
  IF \E i \in 1..Len(students) : students[i].student_code = rec.student_code
    THEN [raises |-> TRUE, out |-> students]
    ELSE IF ~ValidateStudent(rec)
      THEN [raises |-> TRUE, out |-> students]
      ELSE [raises |-> FALSE, out |-> Append(students, rec)]

\* register_student(name, student_code, password, email) is called:
\* update_atomic enters _acquire_lock. data[p] holds the record the call
\* is about.
RegisterStart(p) ==
  /\ pc[p] = "idle"
  /\ ncalls < MaxCalls
  /\ \E code \in StudentCodes, name \in StudentNames, email \in Emails :
       data' = [data EXCEPT ![p] = <<StudentRec(code, name, email)>>]
  /\ ncalls' = ncalls + 1
  /\ cid' = [cid EXCEPT ![p] = ncalls + 1]
  /\ op' = [op EXCEPT ![p] = "register"]
  /\ start' = [start EXCEPT ![p] = now]
  /\ err' = [err EXCEPT ![p] = "none"]
  /\ outcome' = [outcome EXCEPT ![p] = "none"]
  /\ result' = [result EXCEPT ![p] = <<>>]
  /\ ret' = [ret EXCEPT ![p] = None]
  /\ staleSeen' = [staleSeen EXCEPT ![p] = NoMarker]
  /\ pc' = [pc EXCEPT ![p] = "create"]
  /\ UNCHANGED <<now, marker, file, backups, tmp, defaults>>

\* update_atomic: data = read_json(path); out = _fn(data). _fn appends to
\* the list it was given, which is the process's default list when
\* read_json fell back to it.
RegisterTransform(p) ==
  /\ pc[p] = "read"
  /\ op[p] = "register"
  /\ LET r == ReadJson(file, backups, defaults[p])
         f == RegisterFn(r.val, data[p][1])
     IN  IF f.raises
           THEN /\ err' = [err EXCEPT ![p] = "ValueError"]
                /\ pc' = [pc EXCEPT ![p] = "release"]
                /\ UNCHANGED <<data, defaults>>
           ELSE /\ data' = [data EXCEPT ![p] = f.out]
                /\ defaults' = IF r.isDefault
                                 THEN [defaults EXCEPT ![p] = f.out]
                                 ELSE defaults
                /\ pc' = [pc EXCEPT ![p] = "rotate"]
                /\ UNCHANGED err
  /\ UNCHANGED <<now, marker, file, backups, tmp, op, ncalls, cid, start, outcome,
                 result, ret, staleSeen>>

\* update_atomic's finally: _release_lock. After a ValueError the call
\* ends with it; otherwise register_student goes on to its fresh read.
RegisterRelease(p) ==
  /\ pc[p] = "release"
  /\ IF err[p] = "none"
       THEN /\ marker' = NoMarker
            /\ tmp' = [tmp EXCEPT ![p] = Absent]
            /\ pc' = [pc EXCEPT ![p] = "reg_return"]
            /\ UNCHANGED <<now, file, backups, defaults, op, ncalls, cid, start,
                           data, err, outcome, result, ret, staleSeen>>
       ELSE Release(p)

\* for s in read_json(STUDENTS_F): if s.get("student_code") == student_code:
\* return s; return {}. The record of the call is the last of data[p].
RegisterReturn(p) ==
  /\ pc[p] = "reg_return"
  /\ LET l    == ReadJson(file, backups, defaults[p]).val
         code == data[p][Len(data[p])].student_code
         hits == {i \in 1..Len(l) : l[i].student_code = code}
     IN  result' = [result EXCEPT ![p] =
                      IF hits = {} THEN <<>>
                      ELSE <<l[CHOOSE i \in hits : \A j \in hits : i <= j]>>]
  /\ outcome' = [outcome EXCEPT ![p] = "register"]
  /\ data' = [data EXCEPT ![p] = <<>>]
  /\ op' = [op EXCEPT ![p] = "none"]
  /\ pc' = [pc EXCEPT ![p] = "idle"]
  /\ UNCHANGED <<now, marker, file, backups, tmp, defaults, ncalls, cid, start,
                 err, ret, staleSeen>>

\* students.json of an earlier run, empty or holding one student; the
\* marker of a call that died may be left.
RegInit ==
  /\ now = 0
  /\ marker \in InitMarkers
  /\ file \in {Dumps(<<>>), Dumps(<<StudentRec("s1", "Sara", <<>>)>>)}
  /\ backups = NoBackups
  /\ tmp = [p \in Procs |-> Absent]
  /\ defaults = [p \in Procs |-> <<>>]
  /\ pc = [p \in Procs |-> "idle"]
  /\ op = [p \in Procs |-> "none"]
  /\ ncalls = 0
  /\ cid = [p \in Procs |-> 0]
  /\ start = [p \in Procs |-> 0]
  /\ data = [p \in Procs |-> <<>>]
  /\ err = [p \in Procs |-> "none"]
  /\ outcome = [p \in Procs |-> "none"]
  /\ result = [p \in Procs |-> <<>>]
  /\ ret = [p \in Procs |-> None]
  /\ staleSeen = [p \in Procs |-> NoMarker]

RegNext ==
  \E p \in Procs :
     \/ RegisterStart(p) \/ TryCreate(p) \/ StatMarker(p)
     \/ UnlinkStale(p) \/ UnlinkAfterStatError(p) \/ TimeoutCheck(p)
     \/ RegisterTransform(p) \/ Rotate(p) \/ WriteTmp(p) \/ Replace(p)
     \/ RegisterRelease(p) \/ RegisterReturn(p)

RegSpec == RegInit /\ [][RegNext]_vars

\* ---------------------------------------------------------------------
\* The thesis request of a student: student_request (app.py:329-370) and
\* student_thesis_request (api/main.py:497-526), on courses.json,
\* thesis.json and notifications.json. A thesis record is modelled by
\* student_code, course_id and status, a course record by course_id and
\* capacity. write_json is two steps here, the creation of the marker and
\* the rest of the call; its own steps are those of Spec.
\* ---------------------------------------------------------------------

RequestCalls == {"cli_request", "api_request"}
ActiveStatus == {"pending", "approved", "defense"}

RequestRec(code, course) ==
  [student_code |-> code, course_id |-> course, status |-> "pending"]

CourseRec(course, cap) == [course_id |-> course, capacity |-> cap]

\* _course_by_id / _require_course: the first course with the id.
CourseById(courses, course) ==
  LET hits == {i \in 1..Len(courses) : courses[i].course_id = course}
  IN  IF hits = {} THEN <<>>
      ELSE <<courses[CHOOSE i \in hits : \A j \in hits : i <= j]>>

\* next((t for t in thesis if ... status in [...]), None) is not None
ActiveExists(thesis, code, course) ==
  \E i \in 1..Len(thesis) :
     /\ thesis[i].student_code = code
     /\ thesis[i].course_id = course
     /\ thesis[i].status \in ActiveStatus

Max0(n) == IF n < 0 THEN 0 ELSE n

\* for c in courses: if c["course_id"] == course_id: c["capacity"] = ...
\* The command line clamps at 0, the API does not.
Reserve(call, courses, course) ==
  [i \in 1..Len(courses) |->
     IF courses[i].course_id = course
       THEN CourseRec(course, IF call = "cli_request"
                                THEN Max0(courses[i].capacity - 1)
                                ELSE courses[i].capacity - 1)
       ELSE courses[i]]

\* The handler is entered: the course is read and its capacity tested.
\* "Course not found" / 404 and "Course is full" / 400 end the call.
RequestStart(p) ==
  /\ pc[p] = "idle"
  /\ ncalls < MaxCalls
  /\ ncalls' = ncalls + 1
  /\ cid' = [cid EXCEPT ![p] = ncalls + 1]
  /\ result' = [result EXCEPT ![p] = <<>>]
  /\ \E call \in RequestCalls, code \in StudentCodes, course \in {"c1", "c2"} :
       LET c == CourseById(ReadIn(p, "courses").val, course)
       IN  IF c = <<>>
             THEN /\ outcome' = [outcome EXCEPT ![p] = "not_found"]
                  /\ UNCHANGED <<pc, op, data>>
             ELSE IF c[1].capacity <= 0
               THEN /\ outcome' = [outcome EXCEPT ![p] = "full"]
                    /\ UNCHANGED <<pc, op, data>>
               ELSE /\ outcome' = [outcome EXCEPT ![p] = "none"]
                    /\ op' = [op EXCEPT ![p] = [call |-> call, res |-> "thesis"]]
                    /\ data' = [data EXCEPT ![p] = <<RequestRec(code, course)>>]
                    /\ pc' = [pc EXCEPT ![p] = "req_thesis"]
  /\ UNCHANGED <<now, marker, file, backups, tmp, defaults, start, err, ret,
                 staleSeen>>

\* thesis = read_json(THESIS_F); an active request of the student for the
\* course ends the call; otherwise thesis.append({...}).
RequestReadThesis(p) ==
  /\ pc[p] = "req_thesis"
  /\ LET thesis == ReadIn(p, "thesis").val
         rec    == data[p][1]
     IN  IF ActiveExists(thesis, rec.student_code, rec.course_id)
           THEN /\ outcome' = [outcome EXCEPT ![p] = "exists"]
                /\ op' = [op EXCEPT ![p] = NoCall]
                /\ data' = [data EXCEPT ![p] = <<>>]
                /\ pc' = [pc EXCEPT ![p] = "idle"]
           ELSE /\ data' = [data EXCEPT ![p] = Append(thesis, rec)]
                /\ pc' = [pc EXCEPT ![p] = "req_lock"]
                /\ UNCHANGED <<outcome, op>>
  /\ UNCHANGED <<now, marker, file, backups, tmp, defaults, ncalls, cid, start, err,
                 result, ret, staleSeen>>

\* atomic_write(path, data): _acquire_lock creates the marker of the
\* resource, or waits while there is one.
RequestLock(p) ==
  /\ pc[p] = "req_lock"
  /\ ~marker[OwnLock(p)].exists
  /\ marker' = [marker EXCEPT ![OwnLock(p)] = Marker(cid[p], now)]
  /\ pc' = [pc EXCEPT ![p] = "req_write"]
  /\ UNCHANGED <<now, file, backups, tmp, defaults, op, ncalls, cid, start, data,
                 err, outcome, result, ret, staleSeen>>

\* atomic_write(path, data), under the marker: _rotate_backup,
\* _atomic_write_text, _release_lock. After thesis.json the handler goes on
\* to courses.json, after courses.json to emit. result[p] keeps the
\* record of the request.
RequestWrite(p) ==
  /\ pc[p] = "req_write"
  /\ backups' = RotateIn(op[p].res, file[op[p].res], backups, now)
  /\ file' = [file EXCEPT ![op[p].res] = Dumps(data[p])]
  /\ marker' = [marker EXCEPT ![OwnLock(p)] = NoMarker]
  /\ IF op[p].res = "thesis"
       THEN /\ op' = [op EXCEPT ![p].res = "courses"]
            /\ result' = [result EXCEPT ![p] = <<data[p][Len(data[p])]>>]
            /\ pc' = [pc EXCEPT ![p] = "req_courses"]
       ELSE /\ op' = [op EXCEPT ![p].res = "notifications"]
            /\ pc' = [pc EXCEPT ![p] = "req_emit"]
            /\ UNCHANGED result
  /\ UNCHANGED <<now, tmp, defaults, ncalls, cid, start, data, err, outcome, ret,
                 staleSeen>>

\* courses = read_json(COURSES_F) and the loop that takes one place.
RequestReadCourses(p) ==
  /\ pc[p] = "req_courses"
  /\ data' = [data EXCEPT ![p] =
                Reserve(op[p].call, ReadIn(p, "courses").val, result[p][1].course_id)]
  /\ pc' = [pc EXCEPT ![p] = "req_lock"]
  /\ UNCHANGED <<now, marker, file, backups, tmp, defaults, op, ncalls, cid, start,
                 err, outcome, result, ret, staleSeen>>

\* emit("thesis_requested", {...}): _append_to_notif_list under its flock
\* (notifications.py:311-323); the handler returns.
RequestEmit(p) ==
  /\ pc[p] = "req_emit"
  /\ LET l == Append(ReadIn(p, "notifications").val, Notif(cid[p], result[p][1]))
     IN  /\ backups' = RotateIn("notifications", file["notifications"], backups, now)
         /\ file' = [file EXCEPT !["notifications"] = Dumps(LastN(l, NOTIF_MEMORY_MAX))]
  /\ outcome' = [outcome EXCEPT ![p] = "requested"]
  /\ op' = [op EXCEPT ![p] = NoCall]
  /\ data' = [data EXCEPT ![p] = <<>>]
  /\ pc' = [pc EXCEPT ![p] = "idle"]
  /\ UNCHANGED <<now, marker, tmp, defaults, ncalls, cid, start, err, result, ret,
                 staleSeen>>

\* The course c1 has MaxCapacity places; nobody has asked for it yet.
RequestInit ==
  /\ DirInitLocals
  /\ file = [r \in Resources |->
               IF r = "courses" THEN Dumps(<<CourseRec("c1", MaxCapacity)>>)
               ELSE Dumps(<<>>)]
  /\ backups = [n \in {} |-> Garbage]

RequestNext ==
  \E p \in Procs :
     \/ RequestStart(p) \/ RequestReadThesis(p) \/ RequestLock(p)
     \/ RequestWrite(p) \/ RequestReadCourses(p) \/ RequestEmit(p)

RequestSpec == RequestInit /\ [][RequestNext]_vars

\* ---------------------------------------------------------------------
\* Termination of _acquire_lock (repo.py:131-166). The processes call
\* write_json again and again; the calls are not counted, so a process
\* can go on calling for ever. A process that is inside a call goes on
\* taking steps, and the clock goes on advancing up to MaxNow: these are
\* the fairness conditions.
\* ---------------------------------------------------------------------

\* p is inside the loop of _acquire_lock.
AcquirePcs == {"create", "stat", "unlink_stale", "unlink_exc", "timeout_check"}

\* write_json(path, data) is called: _acquire_lock is entered.
LiveStart(p) ==
  /\ pc[p] = "idle"
  /\ cid' = [cid EXCEPT ![p] = p]
  /\ op' = [op EXCEPT ![p] = "write"]
  /\ data' = [data EXCEPT ![p] = Payload("write", p)]
  /\ start' = [start EXCEPT ![p] = now]
  /\ err' = [err EXCEPT ![p] = "none"]
  /\ outcome' = [outcome EXCEPT ![p] = "none"]
  /\ result' = [result EXCEPT ![p] = <<>>]
  /\ ret' = [ret EXCEPT ![p] = None]
  /\ staleSeen' = [staleSeen EXCEPT ![p] = NoMarker]
  /\ pc' = [pc EXCEPT ![p] = "create"]
  /\ UNCHANGED <<now, marker, file, backups, tmp, defaults, ncalls>>

\* The steps of a call that has begun.
LiveStep(p) ==
  \/ TryCreate(p) \/ StatMarker(p) \/ UnlinkStale(p) \/ UnlinkAfterStatError(p)
  \/ TimeoutCheck(p) \/ Rotate(p) \/ WriteTmp(p) \/ Replace(p) \/ Release(p)

LiveInit ==
  /\ now = 0
  /\ marker \in InitMarkers
  /\ file = Dumps(<<>>)
  /\ backups = NoBackups
  /\ InitLocals

LiveNext == Tick \/ \E p \in Procs : LiveStart(p) \/ LiveStep(p)

LiveSpec ==
  /\ LiveInit
  /\ [][LiveNext]_vars
  /\ WF_vars(Tick)
  /\ \A p \in Procs : WF_vars(LiveStep(p))

\* ================================================================ claims
\* p takes a step of its own call (and does not die in it).
Steps(p) == pc'[p] # pc[p] /\ outcome'[p] # "crashed"

\* C1: at most one caller holds the resource's lock at any time: no two
\* calls are at once between their _acquire_lock and their _release_lock.
\* (Stated for the first STALE_LOCK_SEC seconds, when no holder of this run
\* can have held the lock long enough to be presumed dead.)
MutualExclusion ==
  now <= STALE_LOCK_SEC =>
    \A p, q \in Procs : p # q => ~(Holds(p) /\ Holds(q))

\* How often tag t occurs in the list s.
Count(t, s) == Cardinality({i \in 1..Len(s) : s[i] = t})

\* C2: once two concurrent update_atomic calls that each append their own
\* tag have both returned, the resource holds both tags exactly once.
\* (Stated for the first STALE_LOCK_SEC seconds, as C1.)
NoLostUpdate ==
  (/\ now <= STALE_LOCK_SEC
   /\ ncalls = Cardinality(Procs)
   /\ \A p \in Procs : pc[p] = "idle" /\ outcome[p] = "append")
  => /\ Parses(file)
     /\ \A p \in Procs : Count(Tag(cid[p]), Loads(file)) = 1

\* C3: the file under the real name changes only by the rename of a
\* completely written temp file: after any step, a crash included, it
\* holds what it held before or exactly the new text, never a part of it.
AtomicReplace ==
  [][ /\ file' # file =>
           \E p \in Procs : /\ pc[p] = "replace"
                            /\ Steps(p)
                            /\ file' = Dumps(data[p])
      /\ file'.kind # "partial" ]_vars

\* C3 witness: a writer has renamed its text onto a resource that held
\* something else, while the other process died in its call.
AtomicReplaceWitness ==
  \E p, q \in Procs :
     /\ pc[p] = "release" /\ err[p] = "none" /\ op[p] = "append"
     /\ file = Dumps(data[p])
     /\ outcome[q] = "crashed"

TimeoutNoEffect ==
  [][ \A p \in Procs :
        (/\ pc[p] \in {"create", "stat", "timeout_check"}
         /\ Steps(p)
         /\ marker.exists
         /\ now - marker.mtime <= STALE_LOCK_SEC) =>
           /\ file' = file /\ backups' = backups /\ marker' = marker
           /\ data'[p] = data[p] /\ result'[p] = result[p]
           /\ pc'[p] \in {"stat", "timeout_check", "create", "idle"}
           /\ (pc[p] = "timeout_check" /\ now - start[p] > LOCK_TIMEOUT_SEC)
                => pc'[p] = "idle" /\ outcome'[p] = "TimeoutError"
           /\ pc'[p] = "idle" => outcome'[p] = "TimeoutError" ]_vars

\* C5 witness: a call has timed out on a marker that is older than the
\* timeout and still not stale.
TimeoutWitness ==
  \E p \in Procs :
     /\ pc[p] = "idle" /\ outcome[p] = "TimeoutError"
     /\ marker.exists
     /\ now - marker.mtime > LOCK_TIMEOUT_SEC
     /\ now - marker.mtime <= STALE_LOCK_SEC

TakeoverRaceSafe ==
  \A p, q \in Procs :
     (p # q /\ staleSeen[p].exists /\ staleSeen[p] = staleSeen[q])
       => ~(Holds(p) /\ Holds(q))

\* The snapshots that parse, and the newest of them by name.
Parsing(bk) == {t \in DOMAIN bk : Parses(bk[t])}
Newest(S) == CHOOSE t \in S : \A u \in S : u <= t

\* p makes a read_json call in this step.
Reads(p) == cid'[p] = ncalls' /\ ncalls' = ncalls + 1 /\ outcome'[p] = "read"

\* C9: when the primary does not parse and some snapshot does, read_json
\* returns the content of the newest snapshot that parses.
NewestBackupRead ==
  [][ \A p \in Procs :
        (Reads(p) /\ ~Parses(file) /\ Parsing(backups) # {})
          => result'[p] = Loads(backups[Newest(Parsing(backups))]) ]_vars

\* C9 witness: a read returned the content of a snapshot that parses while
\* a newer snapshot and the primary do not, and an older one parses too.
NewestBackupWitness ==
  \E p \in Procs :
     /\ pc[p] = "idle" /\ outcome[p] = "read" /\ ~Parses(file)
     /\ \E t, u \in DOMAIN backups :
          /\ t < u /\ Parses(backups[t]) /\ ~Parses(backups[u])
          /\ result[p] = Loads(backups[t]) /\ result[p] # <<>>

\* C10: when neither the primary nor any snapshot parses, read_json
\* returns the empty list.
DefaultIsEmpty ==
  [][ \A p \in Procs :
        (Reads(p) /\ ~Parses(file) /\ Parsing(backups) = {})
          => result'[p] = <<>> ]_vars

\* C11: read_json returns a value of the resource's declared shape, a
\* list, whatever the primary and the snapshots hold, also after write_json
\* stored a value that is no list.
ReadShape ==
  [][ \A p \in Procs : Reads(p) => IsList(result'[p]) ]_vars

\* C12: read_json, called on its own or inside update_atomic, leaves the
\* primary, every snapshot and the lock marker as they were.
ReadChangesNothing ==
  [][ \A p \in Procs :
        (Reads(p) \/ (pc[p] = "read" /\ Steps(p)))
          => (file' = file /\ backups' = backups /\ marker' = marker) ]_vars

\* C12 witness: a read has recovered a value from a snapshot and the
\* primary is still unparsable.
ReadChangesNothingWitness ==
  \E p \in Procs :
     /\ pc[p] = "idle" /\ outcome[p] = "read" /\ result[p] = <<0>>
     /\ file = Garbage /\ ~marker.exists

\* p's rotation step in which the copy and every unlink succeeded, for a
\* resource whose content no snapshot holds yet and whose snapshots are all
\* complete copies.
Rotated(p) ==
  /\ pc[p] = "rotate" /\ pc'[p] = "write_tmp"
  /\ file.kind # "absent"
  /\ backups' = RotateBackup(file, backups, now)
  /\ \A u \in DOMAIN backups : backups[u] # file /\ backups[u].kind # "partial"

\* C13: a write's rotation keeps the content the resource had just before
\* the write as a snapshot of its own: the snapshot is new, and no snapshot
\* that is kept is given another content, also when the writes follow each
\* other within one clock second.
PreImageKept ==
  [][ \A p \in Procs :
        Rotated(p) =>
          /\ \E t \in DOMAIN backups' \ DOMAIN backups : backups'[t] = file
          /\ \A u \in DOMAIN backups \cap DOMAIN backups' :
               backups'[u] = backups[u] ]_vars

\* C14: a rotation leaves one snapshot more than there were, up to the
\* retention count, never more than the retention count, and the snapshots
\* it drops are older than every snapshot it keeps; so K > N writes leave
\* exactly the pre-images of the last N.
RetentionExact ==
  [][ \A p \in Procs :
        (Rotated(p) /\ Cardinality(DOMAIN backups) <= BACKUP_RETAIN_PER_FILE) =>
          /\ Cardinality(DOMAIN backups') =
               Min(BACKUP_RETAIN_PER_FILE, Cardinality(DOMAIN backups) + 1)
          /\ \A u \in DOMAIN backups \ DOMAIN backups' :
               \A v \in DOMAIN backups' : u < v ]_vars

\* C15: whatever the copy and the unlinks of the rotation do, the call
\* goes on from the rotation to the write with no exception in flight and
\* its data untouched, and a write_json that returns has put its data under
\* the real name.
RotationNeverBlocks ==
  [][ \A p \in Procs :
        /\ (pc[p] = "rotate" /\ Steps(p)) =>
              /\ pc'[p] = "write_tmp" /\ err'[p] = "none"
              /\ data'[p] = data[p] /\ file' = file
        /\ (pc[p] = "release" /\ Steps(p) /\ err[p] = "none"
              /\ op[p] \in {"write", "write_obj"}) =>
              file = Dumps(data[p]) ]_vars

\* C15 witness: a write_json on an existing resource has returned with its
\* data under the real name, and there is no snapshot at all: the copy of
\* its rotation failed.
RotationFailedWitness ==
  \E p \in Procs :
     /\ pc[p] = "idle" /\ outcome[p] = "write"
     /\ file = Dumps(<<Tag(cid[p])>>)
     /\ DOMAIN backups = {}

UpdateOps == {"append", "mutate", "replace", "mutate_replace", "nofn", "raise"}

\* C17: a call's steps come in the order acquire, read and transform,
\* rotate, write, release: the read follows the acquisition that created
\* the caller's marker, the rotation follows the read (update_atomic) or
\* the acquisition (write_json), the write follows the rotation, the
\* release comes last; and a call reads, rotates and renames only while
\* the lock is its own: the marker at the lock path is the one it created.
\* (The lock part is stated for the first STALE_LOCK_SEC seconds, as C1.)
StepOrder ==
  [][ \A p \in Procs :
        Steps(p) =>
          /\ pc'[p] = "read" =>
               (pc[p] = "create" /\ op'[p] \in UpdateOps
                  /\ marker' = Marker(cid[p], now))
          /\ pc'[p] = "rotate" =>
               \/ (pc[p] = "read" /\ op[p] \in UpdateOps)
               \/ (pc[p] = "create" /\ op'[p] \notin UpdateOps
                     /\ marker' = Marker(cid[p], now))
          /\ pc'[p] = "write_tmp" => pc[p] = "rotate"
          /\ pc'[p] = "replace" => pc[p] = "write_tmp"
          /\ pc'[p] = "release" => pc[p] \in {"read", "write_tmp", "replace"}
          /\ (pc'[p] = "release" /\ err'[p] = "none") => pc[p] = "replace"
          /\ pc[p] = "release" => (pc'[p] = "idle" /\ ~marker'.exists)
          /\ outcome'[p] \in UpdateOps \cup {"write", "write_obj"} => pc[p] = "release"
          /\ (pc[p] \in {"read", "rotate", "replace"} /\ now <= STALE_LOCK_SEC) =>
               (marker.exists /\ marker.owner = cid[p]) ]_vars

\* C18: what update_atomic puts under the real name, for a resource that
\* parses: the value the transform returned when it returned another
\* object than its argument (also when it changed the argument in place as
\* well), and otherwise, when it returned nothing or its argument or when
\* there is no transform, the argument as the transform left it.
PersistsTransformResult ==
  [][ \A p \in Procs :
        (pc[p] = "replace" /\ Steps(p) /\ err'[p] = "none"
           /\ Parses(file) /\ op[p] \in UpdateOps) =>
          LET d == Loads(file)
              t == Tag(cid[p])
          IN  /\ op[p] \in {"replace", "mutate_replace"} => file' = Dumps(<<t>>)
              /\ op[p] = "mutate" => file' = Dumps(Append(d, t))
              /\ (op[p] = "append" /\ IsList(d)) => file' = Dumps(Append(d, t))
              /\ (op[p] = "append" /\ ~IsList(d)) => file' = Dumps(<<t>>)
              /\ op[p] = "nofn" => file' = Dumps(d) ]_vars

\* C18 witness: a transform appended to a non-empty list in place and
\* returned a new list; the new list is under the real name, the list as
\* mutated is not.
PersistsTransformWitness ==
  \E p \in Procs :
     /\ pc[p] = "release" /\ err[p] = "none" /\ op[p] = "mutate_replace"
     /\ file = Dumps(<<Tag(cid[p])>>)
     /\ \E u \in DOMAIN backups :
          Parses(backups[u]) /\ IsList(Loads(backups[u])) /\ Len(Loads(backups[u])) = 1

\* C19: a successful update_atomic returns what its transform returned:
\* None when the transform returned nothing or there is none, the new list
\* when it returned one, the list it was given (the one now persisted) when
\* it returned that.
ReturnsTransformResult ==
  [][ \A p \in Procs :
        (pc[p] = "release" /\ Steps(p) /\ err[p] = "none" /\ op[p] \in UpdateOps) =>
          /\ outcome'[p] = op[p]
          /\ op[p] \in {"mutate", "nofn"} => result'[p] = None
          /\ op[p] \in {"replace", "mutate_replace"} => result'[p] = <<Tag(cid[p])>>
          /\ op[p] = "append" =>
               (result'[p] # None /\ file = Dumps(result'[p])) ]_vars

\* C19 witness: an update_atomic whose transform changed the list in place
\* and returned nothing has returned None, and the changed list is stored.
ReturnsTransformWitness ==
  \E p \in Procs :
     /\ pc[p] = "idle" /\ outcome[p] = "mutate" /\ result[p] = None
     /\ Parses(file) /\ Count(Tag(cid[p]), Loads(file)) = 1

\* C20: once two request handlers that each changed a record of their own
\* in thesis.json have both returned, the file holds both changes.
HandlersKeepBothChanges ==
  (\A p \in Procs : pc[p] = "idle" /\ outcome[p] = "handler")
    => /\ Parses(file)
       /\ \A p \in Procs : Loads(file)[p] = Tag(cid[p])

\* The fields of a record down to the values that are no objects, each
\* with the path of field names that leads to it.
RECURSIVE Leaves(_, _)
Leaves(d, path) ==
  UNION { IF IsDict(d[k]) THEN Leaves(d[k][2], Append(path, k))
                          ELSE {<<Append(path, k), d[k]>>} : k \in DOMAIN d }

IsPrefix(a, b) == Len(a) <= Len(b) /\ SubSeq(b, 1, Len(a)) = a

\* p makes an upsert_thesis call that goes through, in this step.
Upserts(p) ==
  cid'[p] = ncalls' /\ ncalls' = ncalls + 1 /\ outcome'[p] = "upsert_thesis"

\* C21: upsert_thesis on a list with a record of the candidate's key puts
\* the merge in the place of the first such record and leaves every other
\* record and the length alone: the merge holds every field of the
\* candidate with the candidate's value, and every field of the stored
\* record (inside nested objects too) that the candidate neither gives nor
\* replaces together with the object around it; with no such record the
\* candidate is appended.
UpsertMerges ==
  [][ \A p \in Procs :
        Upserts(p) =>
          LET old == ReadIn(p, "thesis").val
              new == Loads(file'["thesis"])
              c   == data'[p][1]
              M   == KeyMatches(old, Get(c, "student_code"), Get(c, "course_id"))
          IN  IF M = {} THEN new = Append(old, c)
              ELSE /\ Len(new) = Len(old)
                   /\ \E i \in M :
                        /\ \A j \in M : i <= j
                        /\ \A j \in 1..Len(old) : j # i => new[j] = old[j]
                        /\ Leaves(new[i], <<>>) =
                             Leaves(c, <<>>) \cup
                               {l \in Leaves(old[i], <<>>) :
                                  \A m \in Leaves(c, <<>>) :
                                     ~IsPrefix(m[1], l[1]) /\ ~IsPrefix(l[1], m[1])} ]_vars

\* C21 witness: an upsert with a new title and a new files.pdf on the
\* stored record (1, 1) has returned: the record has both, and still has
\* its status, its files.img and its files.meta; the list is as long as
\* before.
UpsertMergesWitness ==
  \E p \in Procs :
     /\ outcome[p] = "upsert_thesis"
     /\ Parses(file["thesis"]) /\ Len(Loads(file["thesis"])) = 2
     /\ LET th == Loads(file["thesis"])[1]
        IN  /\ th.title = Str(2) /\ th.status = Str(1)
            /\ th.files = Dict([pdf |-> Str(2), img |-> Str(1),
                                meta |-> Dict([pages |-> Str(1), lang |-> Str(1)])])

\* p makes an archive_defense call in this step.
Archives(p) ==
  cid'[p] = ncalls' /\ ncalls' = ncalls + 1 /\ outcome'[p] = "archive_defense"

\* The records of a list that have another key than rec, in their order.
OtherKeys(list, rec) ==
  SelectSeq(list, LAMBDA r : <<Get(r, "student_code"), Get(r, "course_id")>>
                               # <<Get(rec, "student_code"), Get(rec, "course_id")>>)

\* C22: after an archive_defense call the archive holds exactly one record
\* with the call's key, the record of this call, whether the archive held
\* none, one or several records with that key before; the records with
\* another key are the same as before, in the same order.
ArchiveKeepsLatest ==
  [][ \A p \in Procs :
        Archives(p) =>
          LET old == ReadIn(p, "defended_thesis").val
              new == Loads(file'["defended_thesis"])
              rec == data'[p][1]
              M   == KeyMatches(new, Get(rec, "student_code"), Get(rec, "course_id"))
          IN  /\ Cardinality(M) = 1
              /\ \A i \in M : new[i] = rec
              /\ OtherKeys(new, rec) = OtherKeys(old, rec)
              /\ Len(new) = Len(OtherKeys(old, rec)) + 1 ]_vars

\* C22 witness: the second of two archive_defense calls for the key (1, 2),
\* which the earlier run had archived twice, has returned: the archive
\* holds the key once, with the second call's title, and the snapshot
\* taken by the second call holds it once with another title, the first
\* call's; the two records with other keys are still there.
ArchiveKeepsLatestWitness ==
  \E p \in Procs :
     /\ outcome[p] = "archive_defense" /\ cid[p] = 2
     /\ data[p] = <<DefenseRec(1, 2, 3)>>
     /\ Loads(file["defended_thesis"]) =
          <<DefenseRec(1, 1, 1), DefenseRec(2, 1, 1), DefenseRec(1, 2, 3)>>
     /\ \E n \in DOMAIN backups :
          /\ n.stem = Stem("defended_thesis")
          /\ Loads(backups[n]) =
               <<DefenseRec(1, 1, 1), DefenseRec(2, 1, 1), DefenseRec(1, 2, 2)>>

\* C23: once every emit made so far has returned, notifications.json
\* holds at most NOTIF_MEMORY_MAX records, and when no more than
\* NOTIF_MEMORY_MAX records were emitted it holds each of them once, after
\* what is left of the earlier records.
NotifWindowKept ==
  (\A p \in Procs : pc[p] = "idle") =>
     /\ Parses(file)
     /\ Len(Loads(file)) <= NOTIF_MEMORY_MAX
     /\ ncalls <= NOTIF_MEMORY_MAX =>
          \A t \in 1..ncalls : Count(Tag(t), Loads(file)) = 1

\* The snapshots that carry the stem of r, by timestamp.
OwnSnaps(r, bk) ==
  [t \in {n.ts : n \in {m \in DOMAIN bk : m.stem = Stem(r)}} |-> bk[SnapName(r, t)]]

\* C24: a step of a call on resource r leaves the file, the marker and
\* the snapshots of every other resource as they were, and what it does
\* depends on r alone: the exclusive create succeeds whenever r's own
\* marker is absent, whoever holds another resource; the caller waits, and
\* in the end times out, only on r's own marker; the read returns r's
\* content or r's own newest snapshot.
ResourceIndependence ==
  [][ \A p \in Procs :
        (Steps(p) /\ pc[p] # "idle") =>
          LET r == op[p].res
          IN  /\ \A r2 \in Resources \ {r} :
                   /\ file'[r2] = file[r2]
                   /\ marker'[LockPath(r2)] = marker[LockPath(r2)]
                   /\ OwnSnaps(r2, backups') = OwnSnaps(r2, backups)
              /\ (pc[p] = "create" /\ ~marker[LockPath(r)].exists) =>
                   (pc'[p] = "read" /\ marker'[LockPath(r)] = Marker(cid[p], now))
              /\ pc'[p] \in {"stat", "timeout_check"} => marker[LockPath(r)].exists
              /\ outcome'[p] = "TimeoutError" => pc[p] = "timeout_check"
              /\ pc[p] = "read" =>
                   data'[p] = Append(ReadJson(file[r], OwnSnaps(r, backups),
                                              defaults[p][r]).val, Tag(cid[p]))
              /\ pc[p] = "write_tmp" => file'[r] = Dumps(data[p]) ]_vars

\* C24 witness: the two processes hold the locks of the two resources at
\* the same time: one has written defended_thesis.json, the other has
\* read an unreadable thesis.json that has no snapshot of its own, while
\* defended_thesis.json has some, and got the empty default.
ResourceIndependenceWitness ==
  \E p, q \in Procs :
     /\ Holds(p) /\ op[p].res = "thesis" /\ marker[LockPath("thesis")].owner = cid[p]
     /\ Holds(q) /\ op[q].res = "defended_thesis"
     /\ marker[LockPath("defended_thesis")].owner = cid[q]
     /\ pc[q] = "release"
     /\ file["thesis"] = Garbage /\ pc[p] = "rotate" /\ data[p] = <<Tag(cid[p])>>

\* C25: a resource file that exists under its real name exists after every
\* step: the bootstrap, read_json, write_json, update_atomic with its
\* rotation, a takeover of the lock, a failed write, a crash and a purge
\* all leave a file there; and a purge changes the file only by the rename
\* of its write, to the empty list.
ResourceStays ==
  [][ /\ file.kind # "absent" => file'.kind # "absent"
      /\ \A p \in Procs :
           (op[p] = "purge" /\ Steps(p) /\ file' # file) =>
              (pc[p] = "replace" /\ file' = Dumps(<<>>)) ]_vars

\* C25 witness: in a directory that was new, a purge has returned after an
\* append: the file is there and holds the empty list, and the snapshot of
\* the purge's write holds the record appended before.
ResourceStaysWitness ==
  \E p \in Procs :
     /\ pc[p] = "idle" /\ outcome[p] = "purge"
     /\ file = Dumps(<<>>)
     /\ \E t \in DOMAIN backups : backups[t] = Dumps(<<Tag(1)>>)

\* C30: a step of the bootstrap changes the resource file only when the
\* file is absent, and then to the empty default: a file that exists keeps
\* its content through every bootstrap step, whatever another process has
\* done to the resource in the meantime.
BootstrapKeepsContent ==
  [][ \A p \in Procs :
        (pc[p] \in BootPcs /\ Steps(p)) =>
           /\ file.kind # "absent" => file' = file
           /\ file' # file => file' = Dumps(<<>>) ]_vars

\* C27: a lock marker younger than the staleness threshold is deleted only
\* by the release of the call that created it: not by the unlink of another
\* acquirer (stale branch, failed stat) and not by the release of a call
\* whose own marker is gone.
FreshMarkerOwnerOnly ==
  [][ (marker.exists /\ ~IsStale(marker, now) /\ ~marker'.exists) =>
         \E p \in Procs : /\ pc[p] = "release" /\ pc'[p] = "idle"
                          /\ marker.owner = cid[p] ]_vars

\* No student_code occurs twice in the list a block holds.
UniqueCodes(b) ==
  Parses(b) =>
    \A i, j \in 1..Len(Loads(b)) :
       Loads(b)[i].student_code = Loads(b)[j].student_code => i = j

\* C26: through every step of concurrent register_student calls
\* students.json and its snapshots hold at most one record per
\* student_code; a call whose code is in the list it has read raises
\* ValueError, and a call that raises ValueError changes neither
\* students.json nor its snapshots and ends with that error.
RegisterKeepsUnique ==
  [][ /\ UniqueCodes(file')
      /\ \A t \in DOMAIN backups' : UniqueCodes(backups'[t])
      /\ \A p \in Procs :
           (op[p] = "register" /\ Steps(p)) =>
              /\ ( /\ pc[p] = "read"
                   /\ LET l == ReadJson(file, backups, defaults[p]).val
                      IN  \E i \in 1..Len(l) :
                             l[i].student_code = data[p][1].student_code )
                 => (err'[p] = "ValueError" /\ pc'[p] = "release")
              /\ err'[p] = "ValueError" =>
                   (file' = file /\ backups' = backups)
              /\ err[p] = "ValueError" =>
                   (pc'[p] = "idle" /\ outcome'[p] = "ValueError") ]_vars

\* C26 witness: a call for a code that another call registered under
\* another name has raised ValueError; students.json holds the one record
\* of the first call, and that call took a snapshot.
RegisterKeepsUniqueWitness ==
  \E p, q \in Procs :
     /\ p # q
     /\ pc[p] = "release" /\ err[p] = "ValueError"
     /\ data[p] = <<StudentRec("s2", "Sara", <<>>)>>
     /\ pc[q] = "idle" /\ outcome[q] = "register"
     /\ result[q] = <<StudentRec("s2", "Omid", <<"s", "@", "u">>)>>
     /\ file = Dumps(<<StudentRec("s1", "Sara", <<>>),
                       StudentRec("s2", "Omid", <<"s", "@", "u">>)>>)
     /\ backups # NoBackups

\* The places c1 has left, and the active requests for it in thesis.json.
CapacityLeft == CourseById(Loads(file["courses"]), "c1")[1].capacity
ActiveRequests ==
  {i \in 1..Len(Loads(file["thesis"])) :
     /\ Loads(file["thesis"])[i].course_id = "c1"
     /\ Loads(file["thesis"])[i].status \in ActiveStatus}

\* C28: under every interleaving of concurrent requests for a course its
\* capacity is never negative, and thesis.json never holds more active
\* requests for it than the places it had before the requests.
NoOverBooking ==
  /\ CapacityLeft >= 0
  /\ Cardinality(ActiveRequests) <= MaxCapacity

\* C29: under fair scheduling every call of _acquire_lock ends, with the
\* lock or with the timeout error: a caller that is in the loop, and
\* whose timeout the clock can still pass, is later out of it, whatever
\* calls the other process makes and ends in the meantime.
AcquireTerminates ==
  \A p \in Procs :
     (pc[p] \in AcquirePcs /\ start[p] + LOCK_TIMEOUT_SEC < MaxNow)
        ~> (pc[p] \notin AcquirePcs)
====
